---- MODULE Spec2Model ----
(***************************************************************************)
(* BugBattle simulation engine (framework.py, shared.py): the World grid,  *)
(* the Creature / Organ energy economy, combat, and the Simulation loop.   *)
(*                                                                         *)
(* Objects live in a heap keyed by identity; a grid cell holds an identity *)
(* (0 stands for Python's None).  Competitor strategies are modelled as   *)
(* any sequence of calls of the public organ API made by the creature     *)
(* whose do_turn is running.                                               *)
(***************************************************************************)
EXTENDS Integers, Sequences, FiniteSets, TLC

(* ------------------------------ bounds -------------------------------- *)
Width == 2
MaxTurns == 2
MaxOps == 3
MaxPlace == 2
MaxWidth == 4

(* ------------------------- program constants -------------------------- *)
MAX_STRENGTH == 2000
MAINTENANCE_COST == 20
MAX_ORGANS == 10
START_STRENGTH == 1500
N_CREATURES == 3
RESERVOIR_CAPACITY == 1000
DAMAGE_MULTIPLIER == 4
DEFENSIVE_DAMAGE == 200

NCells == Width * Width
Cells == 0 .. (NCells - 1)
None == 0
NotFound == 0 - 1

Species == {"A", "B"}
\* Simulation.interval after construction (0.5 s), in milliseconds.
InitialInterval == 500
\* The positions of the interval slider a command may carry, in milliseconds;
\* the command divides by 1000 and the simulation keeps seconds.
Intervals == {0, 250}
CompetitorLists == {<<"A">>, <<"A", "B">>}
PlaceCells == 0 .. (MaxPlace - 1)
\* The outcomes of the initial plant cover draws: none, or one plant south of
\* the last populated cell.
PlantChoices == {{}, {MaxPlace - 1 + Width}}
Bearings == {"E", "S"}
\* The cells whose soil may draw below the plant growth probability.
GrowCells == {Width}
\* The organs a competitor family grows (as Hunter grows Cilia, a sensor and
\* a propagator, and BugAttacker / Spiker grow a PoisonGland or Spikes).
OrganKinds ==
  [A |-> {"Cilia", "Propagator", "Cloaking", "EnergySensor"},
   B |-> {"PoisonGland", "Spikes", "PhotoGland"}]
Stakes == {1, 1400}
PoisonAmounts == {300}
DropVolumes == {200}

\* The random cells drawn by Simulation.populate: the last creature of each
\* species draws from PlaceCells, the earlier ones land on cell 0.
Placements(n) ==
  {where \in [1 .. n -> PlaceCells] :
     \A p \in 1 .. n : p % N_CREATURES # 0 => where[p] = 0}

(* ----------------------------- Direction ------------------------------ *)
Direction ==
  [N |-> <<0, 0 - 1>>, NE |-> <<1, 0 - 1>>, E |-> <<1, 0>>, SE |-> <<1, 1>>,
   S |-> <<0, 1>>, SW |-> <<0 - 1, 1>>, W |-> <<0 - 1, 0>>, NW |-> <<0 - 1, 0 - 1>>]

dx(bearing) == Direction[bearing][1]
dy(bearing) == Direction[bearing][2]

\* Direction.opposite: the member whose value is (-dx, -dy).
opposite(bearing) ==
  CHOOSE b \in DOMAIN Direction : Direction[b] = <<0 - dx(bearing), 0 - dy(bearing)>>

\* _location_offset without the wrap of the row.
location_offset_row_unwrapped(width, start, bearing) ==
  LET new_x == ((start % width) + dx(bearing)) % width
      new_y == (start \div width) + dy(bearing)
  IN  new_y * width + new_x

\* World._location_offset for a world of the given width: the start index
\* offset by bearing, both axes wrapping modulo the width.
location_offset_in(width, start, bearing) ==
  LET new_x == ((start % width) + dx(bearing)) % width
      new_y == ((start \div width) + dy(bearing)) % width
  IN  new_y * width + new_x

\* World._location_offset in the world of the simulation.
location_offset(start, bearing) == location_offset_in(Width, start, bearing)

(* ------------------------------- Organ -------------------------------- *)
creation_cost(kind) ==
  CASE kind = "Cilia" -> 100
    [] kind = "PhotoGland" -> 250
    [] kind = "Propagator" -> 50
    [] kind = "Cloaking" -> 500
    [] kind = "EnergySensor" -> 100
    [] kind = "CreatureTypeSensor" -> 100
    [] kind = "LifeSensor" -> 50
    [] kind = "PoisonSensor" -> 50
    [] kind = "PoisonGland" -> 500
    [] kind = "Spikes" -> 100

use_cost(kind) ==
  CASE kind = "Cilia" -> 20
    [] kind = "Propagator" -> 100
    [] kind = "Cloaking" -> 100
    [] kind = "EnergySensor" -> 2
    [] kind = "CreatureTypeSensor" -> 2
    [] kind = "LifeSensor" -> 1
    [] kind = "PoisonSensor" -> 1

\* Organ.maintenance_cost, with the Cloaking override (use cost added while
\* the host is cloaked).
maintenance_cost(organ, host) ==
  CASE organ.kind = "Cilia" -> 10
    [] organ.kind = "PhotoGland" -> 0 - 150
    [] organ.kind = "Propagator" -> 5
    [] organ.kind = "Cloaking" -> 10 + (IF host.cloaked THEN 100 ELSE 0)
    [] organ.kind = "EnergySensor" -> 10
    [] organ.kind = "CreatureTypeSensor" -> 10
    [] organ.kind = "LifeSensor" -> 5
    [] organ.kind = "PoisonSensor" -> 5
    [] organ.kind = "PoisonGland" -> 20
    [] organ.kind = "Spikes" -> 5

\* Organ.__init__ / PoisonGland.__init__: a fresh organ.
NewOrgan(kind) == [kind |-> kind, uses |-> 0, volume |-> 0]

\* Organ.f_defensive_damage with the PoisonGland and Spikes overrides.
organ_defensive_damage(organ) ==
  CASE organ.kind = "PoisonGland" -> organ.volume * DAMAGE_MULTIPLIER
    [] organ.kind = "Spikes" -> DEFENSIVE_DAMAGE
    [] OTHER -> 0

(* ------------------------------ Creature ------------------------------ *)
\* Creature.__init__.  destroyed, cycles and turns are history fields: the
\* number of destroyed() calls made on the death of this instance, and the
\* numbers of f_metabolic_cycle and do_turn calls it received in the current
\* world turn.
NewCreature(kind) ==
  [kind |-> kind, alive |-> TRUE, strength |-> 0, location |-> NotFound,
   organs |-> <<>>, cloaked |-> FALSE, poisonous |-> FALSE,
   destroyed |-> 0, cycles |-> 0, turns |-> 0]

NoObject == NewCreature("None")

f_fights_back(c) == c.kind \notin {"Soil", "Plant"}

RECURSIVE SumDamage(_, _)
SumDamage(organs, n) ==
  IF n = 0 THEN 0 ELSE SumDamage(organs, n - 1) + organ_defensive_damage(organs[n])

f_defensive_damage(c) == SumDamage(c.organs, Len(c.organs))

\* The world state threaded through the operations:
\*   loc   - World.locations, heap - the objects, count - the species'
\*   __instance_count class attributes.
NextId(w) == CHOOSE i \in 1 .. (Cardinality(DOMAIN w.heap) + 1) :
                /\ i \notin DOMAIN w.heap
                /\ \A j \in 1 .. (i - 1) : j \in DOMAIN w.heap

Put(w, id, rec) == [w EXCEPT !.heap = (id :> rec) @@ w.heap]

\* The subclass constructors' __instance_count += 1.
Counted(w, kind) ==
  IF kind \in Species THEN [w EXCEPT !.count[kind] = @ + 1] ELSE w

\* The species' classmethod destroyed(), called for instance c: the class
\* counter is decremented (the call is recorded in c's history field).
destroyed(w, c) ==
  LET w1 == [w EXCEPT !.heap[c].destroyed = @ + 1]
  IN  IF w.heap[c].kind \in Species
      THEN [w1 EXCEPT !.count[w.heap[c].kind] = @ - 1] ELSE w1

\* Creature_f_die without the test of the alive flag.
Creature_f_die_unguarded(w, c) ==
  [destroyed(w, c) EXCEPT !.heap[c].strength = 0, !.heap[c].alive = FALSE]

\* Creature.f_die as defined in the base class.
Creature_f_die(w, c) ==
  LET w1 == IF w.heap[c].alive THEN destroyed(w, c) ELSE w
  IN  [w1 EXCEPT !.heap[c].strength = 0, !.heap[c].alive = FALSE]

\* f_die as dispatched: Soil overrides it with pass.
f_die(w, c) ==
  IF w.heap[c].kind = "Soil" THEN w ELSE Creature_f_die(w, c)

\* Creature.f_expend with death at a result of zero or less.
Creature_f_expend_dying_at_zero(w, c, food_energy) ==
  LET w1 == [w EXCEPT !.heap[c].strength = @ - food_energy]
  IN  IF w1.heap[c].strength <= 0 THEN f_die(w1, c) ELSE w1

\* Creature.f_expend as defined in the base class.
Creature_f_expend(w, c, food_energy) ==
  LET w1 == [w EXCEPT !.heap[c].strength = @ - food_energy]
  IN  IF w1.heap[c].strength < 0 THEN f_die(w1, c) ELSE w1

\* f_expend as dispatched: Soil and PoisonDrop override it with pass.
f_expend(w, c, food_energy) ==
  IF w.heap[c].kind \in {"Soil", "PoisonDrop"} THEN w
  ELSE Creature_f_expend(w, c, food_energy)

\* Creature.f_feed, with Soil's override (pass).
f_feed(w, c, food_energy) ==
  LET r == w.heap[c] IN
  IF r.kind = "Soil" \/ ~r.alive THEN w
  ELSE [w EXCEPT !.heap[c].strength = @ + food_energy]

f_cap_strength(w, c) ==
  [w EXCEPT !.heap[c].strength = IF @ < MAX_STRENGTH THEN @ ELSE MAX_STRENGTH]

\* f_add_organ without the test of the number of organs.
f_add_organ_unbounded(w, c, kind) ==
  LET w1 == f_expend(w, c, creation_cost(kind))
      w2 == [w1 EXCEPT !.heap[c].organs = Append(@, NewOrgan(kind))]
  IN  IF kind = "PoisonGland" THEN [w2 EXCEPT !.heap[c].poisonous = TRUE] ELSE w2

\* Organ.__init__ -> Creature.f_add_organ, then PoisonGland.__init__.
f_add_organ(w, c, kind) ==
  LET w1 == f_expend(w, c, creation_cost(kind))
      w2 == IF Len(w1.heap[c].organs) < MAX_ORGANS
            THEN [w1 EXCEPT !.heap[c].organs = Append(@, NewOrgan(kind))]
            ELSE w1
  IN  IF kind = "PoisonGland" THEN [w2 EXCEPT !.heap[c].poisonous = TRUE] ELSE w2

RECURSIVE MetabolicOrgans(_, _, _)
MetabolicOrgans(w, c, n) ==
  IF n = 0 THEN w
  ELSE LET w1 == MetabolicOrgans(w, c, n - 1)
           w2 == [w1 EXCEPT !.heap[c].organs[n].uses = 0]
       IN  f_expend(w2, c, maintenance_cost(w2.heap[c].organs[n], w2.heap[c]))

f_metabolic_cycle(w, c) ==
  LET w1 == f_expend(MetabolicOrgans(w, c, Len(w.heap[c].organs)), c,
                     MAINTENANCE_COST)
  IN  [w1 EXCEPT !.heap[c].cycles = @ + 1]

attacker_wins(w, a, d) ==
  LET w1 == f_feed(w, a, w.heap[d].strength - f_defensive_damage(w.heap[d]))
  IN  [w |-> f_die(w1, d), winner |-> a]

defender_wins(w, a, d) ==
  LET w1 == f_feed(w, d, w.heap[a].strength - f_defensive_damage(w.heap[a]))
  IN  [w |-> f_die(w1, a), winner |-> d]

\* f_attack giving the attacker the win on equal strengths too.
f_attack_ties_to_attacker(w, a, d) ==
  IF ~f_fights_back(w.heap[d]) THEN attacker_wins(w, a, d)
  ELSE IF ~f_fights_back(w.heap[a]) THEN defender_wins(w, a, d)
  ELSE IF w.heap[a].strength >= w.heap[d].strength THEN attacker_wins(w, a, d)
  ELSE defender_wins(w, a, d)

\* Creature.f_attack: a is self, d the defender.
f_attack(w, a, d) ==
  IF ~f_fights_back(w.heap[d]) THEN attacker_wins(w, a, d)
  ELSE IF ~f_fights_back(w.heap[a]) THEN defender_wins(w, a, d)
  ELSE IF w.heap[a].strength > w.heap[d].strength THEN attacker_wins(w, a, d)
  ELSE defender_wins(w, a, d)

(* -------------------------------- World ------------------------------- *)
\* place without recording the destination in the creature.
place_unrecorded(w, c, destination) ==
  [w EXCEPT !.loc[destination] = c]

\* World.place: the creature records the destination and takes the cell.
place(w, c, destination) ==
  [w EXCEPT !.heap[c].location = destination, !.loc[destination] = c]

\* World.location_of; NotFound stands for the ValueError.
location_of(w, c) ==
  LET l == w.heap[c].location IN
  IF l \in Cells /\ w.loc[l] = c THEN l ELSE NotFound

\* Soil(): a fresh soil object in the heap.
WithSoil(w) == Put(w, NextId(w), NewCreature("Soil"))

\* Plant(): fed the two creation costs, then a PhotoGland and a
\* PlantPropagator are attached.
WithPlant(w) ==
  LET id == NextId(w)
      w1 == f_feed(Put(w, id, NewCreature("Plant")), id,
                   creation_cost("PhotoGland") + creation_cost("Propagator"))
  IN  f_add_organ(f_add_organ(w1, id, "PhotoGland"), id, "Propagator")

\* World.replace(original, replacement); the replacement was constructed
\* (it is in w's heap) before the call.
replace(w, original, replacement) ==
  LET l == location_of(w, original)
  IN  IF l = NotFound THEN w ELSE place(w, replacement, l)

launch_attack(w, start, bearing, attacker) ==
  LET battleground == location_offset(start, bearing)
      fight == f_attack(w, attacker, w.loc[battleground])
  IN  place(fight.w, fight.winner, battleground)

\* move leaving the vacated index unset instead of back-filling it.
move_unset(w, attacker, bearing) ==
  LET start == location_of(w, attacker)
  IN  IF start = NotFound THEN w
      ELSE launch_attack([w EXCEPT !.loc[start] = None], start, bearing, attacker)

\* move trusting the creature's recorded location without the test that it
\* still is the occupant there.
move_unchecked(w, attacker, bearing) ==
  LET start == w.heap[attacker].location
      id == NextId(w)
  IN  launch_attack(place(WithSoil(w), id, start), start, bearing, attacker)

move(w, attacker, bearing) ==
  LET start == location_of(w, attacker)
      id == NextId(w)
  IN  IF start = NotFound THEN w
      ELSE launch_attack(place(WithSoil(w), id, start), start, bearing, attacker)

\* drop_beside vacating the origin's cell, as move does.
drop_beside_vacating(w, origin_creature, dropped, bearing) ==
  LET start == location_of(w, origin_creature)
      id == NextId(w)
  IN  IF start = NotFound THEN w
      ELSE launch_attack(place(WithSoil(w), id, start), start, bearing, dropped)

drop_beside(w, origin_creature, dropped, bearing) ==
  LET start == location_of(w, origin_creature)
  IN  IF start = NotFound THEN w
      ELSE launch_attack(w, start, bearing, dropped)

\* creature_at_offset_from on a grid with edges: a fresh Soil is returned for
\* a target beyond an edge.
creature_at_offset_from_edged(w, c, bearing) ==
  LET start == location_of(w, c)
      new_x == (start % Width) + dx(bearing)
      new_y == (start \div Width) + dy(bearing)
  IN  IF start = NotFound \/ new_x \notin 0 .. (Width - 1)
           \/ new_y \notin 0 .. (Width - 1)
      THEN NewCreature("Soil")
      ELSE w.heap[w.loc[new_y * Width + new_x]]

\* World.creature_at_offset_from: the occupant of the index offset from the
\* creature's index, or a fresh Soil when the creature is not in the grid.
creature_at_offset_from(w, c, bearing) ==
  LET start == location_of(w, c)
  IN  IF start = NotFound THEN NewCreature("Soil")
      ELSE w.heap[w.loc[location_offset(start, bearing)]]

(* --------------------------- organ operations ------------------------- *)
\* f_host_would_be_alive_after_use as a dry run: tests without charging.
f_host_would_be_alive_dry_run(w, c, kind) ==
  [w |-> w,
   alive |-> w.heap[c].alive /\ w.heap[c].strength - use_cost(kind) >= 0]

\* Organ.f_host_would_be_alive_after_use: charges the use cost, then tests.
f_host_would_be_alive_after_use(w, c, kind) ==
  LET w1 == f_expend(w, c, use_cost(kind))
  IN  [w |-> w1, alive |-> w1.heap[c].alive]

\* move_in_direction without the test of the organ's uses this turn.
move_in_direction_unlimited(w, c, o, bearing) ==
  LET chk == f_host_would_be_alive_after_use(w, c, "Cilia")
  IN  IF chk.alive
      THEN move([chk.w EXCEPT !.heap[c].organs[o].uses = @ + 1], c, bearing)
      ELSE chk.w

\* Cilia.move_in_direction on organ o of host c.
move_in_direction(w, c, o, bearing) ==
  LET chk == f_host_would_be_alive_after_use(w, c, "Cilia")
  IN  IF chk.alive /\ chk.w.heap[c].organs[o].uses = 0
      THEN move([chk.w EXCEPT !.heap[c].organs[o].uses = @ + 1], c, bearing)
      ELSE chk.w

\* make_child of the host's propagator: PlantPropagator returns Plant(), a
\* competitor's propagator a new creature of its species.
make_child(w, kind) ==
  IF kind = "Plant" THEN WithPlant(w)
  ELSE Counted(Put(w, NextId(w), NewCreature(kind)), kind)

\* give_birth testing the use cost first and expending the stake afterwards.
give_birth_stake_last(w, c, initial_energy, direction) ==
  LET chk == f_host_would_be_alive_after_use(w, c, "Propagator")
      w1 == f_expend(chk.w, c, initial_energy)
      child == NextId(w1)
      w2 == f_feed(make_child(w1, w1.heap[c].kind), child, initial_energy)
  IN  IF chk.alive THEN drop_beside(w2, c, child, direction) ELSE w1

\* Propagator.give_birth.
give_birth(w, c, initial_energy, direction) ==
  LET w1 == f_expend(w, c, initial_energy)
      chk == f_host_would_be_alive_after_use(w1, c, "Propagator")
      child == NextId(chk.w)
      w2 == f_feed(make_child(chk.w, chk.w.heap[c].kind), child, initial_energy)
  IN  IF chk.alive THEN drop_beside(w2, c, child, direction) ELSE chk.w

\* Cloaking.cloak.
cloak(w, c) ==
  LET chk == f_host_would_be_alive_after_use(w, c, "Cloaking")
  IN  IF chk.alive THEN [chk.w EXCEPT !.heap[c].cloaked = TRUE] ELSE chk.w

f_apparent_strength(r) == IF r.cloaked THEN 0 ELSE r.strength

\* Sensor.sense for the EnergySensor: the new world and the value returned.
sense(w, c, direction) ==
  LET chk == f_host_would_be_alive_after_use(w, c, "EnergySensor")
  IN  [w |-> chk.w,
       value |-> IF chk.alive
                 THEN f_apparent_strength(creature_at_offset_from(chk.w, c, direction))
                 ELSE 0]

\* Creature.f_apparent_type, with PoisonDrop's override (always Soil).
f_apparent_type(r) ==
  IF r.cloaked \/ r.kind = "PoisonDrop" THEN "Soil" ELSE r.kind

f_appears_poisonous(r) == r.poisonous /\ ~r.cloaked

SensorKinds == {"EnergySensor", "CreatureTypeSensor", "LifeSensor", "PoisonSensor"}

\* sensor_value of each Sensor subclass.
sensor_value(kind, target) ==
  CASE kind = "EnergySensor" -> f_apparent_strength(target)
    [] kind = "CreatureTypeSensor" -> f_apparent_type(target)
    [] kind = "LifeSensor" -> f_apparent_type(target) # "Soil"
    [] kind = "PoisonSensor" -> f_appears_poisonous(target)

\* F_DEFAULT_VALUE of each Sensor subclass.
F_DEFAULT_VALUE(kind) ==
  CASE kind = "EnergySensor" -> 0
    [] kind = "CreatureTypeSensor" -> "Soil"
    [] kind = "LifeSensor" -> FALSE
    [] kind = "PoisonSensor" -> FALSE

\* Sensor.sense for a sensor of the given kind: the new world and the value
\* returned.
Sensor_sense(w, c, kind, direction) ==
  LET chk == f_host_would_be_alive_after_use(w, c, kind)
  IN  [w |-> chk.w,
       value |-> IF chk.alive
                 THEN sensor_value(kind, creature_at_offset_from(chk.w, c, direction))
                 ELSE F_DEFAULT_VALUE(kind)]

Min(a, b) == IF a < b THEN a ELSE b
Max(a, b) == IF a > b THEN a ELSE b

\* PoisonGland.add_poison on organ o of host c.
add_poison(w, c, o, to_add) ==
  IF to_add <= 0 THEN w
  ELSE LET amount == Min(w.heap[c].strength, to_add)
           w1 == f_expend(w, c, amount)
       IN  [w1 EXCEPT !.heap[c].organs[o].volume =
                         Min(RESERVOIR_CAPACITY, @ + amount)]

\* PoisonGland.remove_poison.
remove_poison(w, c, o, to_remove) ==
  IF to_remove > 0
  THEN [w EXCEPT !.heap[c].organs[o].volume = Max(0, @ - to_remove)]
  ELSE w

\* PoisonDrop(volume): fed 1 + volume, a PoisonGland attached and filled
\* (f_expend is overridden, so neither is charged), then the base class
\* f_expend(volume).
WithPoisonDrop(w, volume) ==
  LET id == NextId(w)
      w1 == f_feed(Put(w, id, NewCreature("PoisonDrop")), id, 1 + volume)
      w2 == f_add_organ(w1, id, "PoisonGland")
      w3 == add_poison(w2, id, 1, volume)
  IN  Creature_f_expend(w3, id, volume)

\* PoisonGland.drop_poison on organ o of host c.
drop_poison(w, c, o, direction, volume_desired) ==
  IF volume_desired <= 0 THEN w
  ELSE LET volume == Min(w.heap[c].organs[o].volume, volume_desired)
           w1 == [w EXCEPT !.heap[c].organs[o].volume = @ - volume]
           drop == NextId(w1)
       IN  drop_beside(WithPoisonDrop(w1, volume), c, drop, direction)

(* ------------------------------- state -------------------------------- *)
VARIABLES
  locations,           \* World.locations: cell index -> object identity
  heap,                \* the objects reachable from the grid or the turn's copy
  count,               \* per species: the class attribute __instance_count
  competitor_classes,  \* Simulation.competitor_classes
  interval,            \* Simulation.interval, in milliseconds
  running,             \* Simulation.running
  game_over,           \* Simulation.game_over
  turn_count,          \* Simulation.turn_count
  pc,                  \* "idle": between ticks; "action": in do_turn's action pass
  snapshot,            \* the copy self.locations[:] the action pass iterates
  ix,                  \* position of the action pass in the copy (1-based)
  ops,                 \* behaviour calls made so far in this game
  last,                \* the call the running do_turn made last (history)
  to_sim,              \* the pipe from the GUI's end to the simulation's: commands
  to_gui,              \* the pipe from the simulation's end to the GUI's: snapshots
  shown                \* what Receiver.receive last gave the listeners

vars == <<locations, heap, count, competitor_classes, interval, running,
         game_over,
          turn_count, pc, snapshot, ix, ops, last, to_sim, to_gui, shown>>

World == [loc |-> locations, heap |-> heap, count |-> count]

Range(f) == {f[x] : x \in DOMAIN f}

\* No call yet in the running do_turn.
NoCall ==
  [op |-> "none", host |-> None, o |-> 0, bearing |-> "", amount |-> 0,
   pre |-> NoObject, target |-> NoObject, value |-> 0]

\* The record of a call op made by host c: its arguments, the host as it
\* was before the call, the occupant of the cell the bearing points to as
\* it was before the call, and the value returned.
Call(op, c, o, bearing, amount, value) ==
  [op |-> op, host |-> c, o |-> o, bearing |-> bearing, amount |-> amount,
   pre |-> heap[c],
   target |-> IF bearing # "" /\ location_of(World, c) # NotFound
              THEN heap[locations[location_offset(location_of(World, c), bearing)]]
              ELSE NoObject,
   value |-> value]

\* Objects no longer referenced by the grid or by the rest of the copy are
\* dropped from the heap (they can no longer be reached by the program).
Reachable(w, keep) ==
  [id \in (DOMAIN w.heap) \cap (Range(w.loc) \cup keep) |-> w.heap[id]]

\* Between ticks the identities are renamed so that the occupant of cell i
\* is object i + 1, and the per-turn history is cleared.
Renamed(w) ==
  LET first(id) == CHOOSE i \in Cells :
                      w.loc[i] = id /\ \A j \in 0 .. (i - 1) : w.loc[j] # id
      ids == Range(w.loc) \ {None}
  IN  [w EXCEPT
         !.loc = [i \in Cells |-> IF w.loc[i] = None THEN None
                                  ELSE first(w.loc[i]) + 1],
         !.heap = [k \in {first(id) + 1 : id \in ids} |->
                     [w.heap[CHOOSE id \in ids : first(id) + 1 = k]
                        EXCEPT !.cycles = 0, !.turns = 0]]]

\* World.reset: every occupant's destroyed() is called, then every index
\* receives a fresh Soil.
world_reset(w) ==
  LET gone(s) == Cardinality({i \in Cells : w.loc[i] # None /\ w.heap[w.loc[i]].kind = s})
  IN  [loc |-> [i \in Cells |-> i + 1],
       heap |-> [id \in 1 .. NCells |->
                   [NewCreature("Soil") EXCEPT !.location = id - 1]],
       count |-> [s \in Species |-> w.count[s] - gone(s)]]

\* The world before World.__init__ has run: no occupant, no instance.
NoWorld ==
  [loc |-> [i \in Cells |-> None], heap |-> <<>>, count |-> [s \in Species |-> 0]]

\* Simulation.grow_initial_plants: the cells whose random draw succeeds
\* become plants.
RECURSIVE grow_initial_plants(_, _, _)
grow_initial_plants(w, plants, n) ==
  IF n = 0 THEN w
  ELSE LET w1 == grow_initial_plants(w, plants, n - 1)
       IN  IF (n - 1) \in plants THEN replace(WithPlant(w1), w1.loc[n - 1], NextId(w1)) ELSE w1

\* Simulation.populate: n instances fed START_STRENGTH, placed at the drawn
\* indices where[first + 1 .. first + n].
RECURSIVE populate(_, _, _, _, _)
populate(w, creature_class, n, where, first) ==
  IF n = 0 THEN w
  ELSE LET w1 == populate(w, creature_class, n - 1, where, first)
           c == NextId(w1)
           w2 == f_feed(Counted(Put(w1, c, NewCreature(creature_class)), creature_class),
                        c, START_STRENGTH)
       IN  place(w2, c, where[first + n])

\* The loop of Simulation.reset without the reset of the instance counter.
RECURSIVE populate_all_counting_on(_, _, _, _)
populate_all_counting_on(w, classes, k, where) ==
  IF k = 0 THEN w
  ELSE LET w1 == populate_all_counting_on(w, classes, k - 1, where)
       IN  populate(w1, classes[k], N_CREATURES, where, (k - 1) * N_CREATURES)

\* The loop of Simulation.reset over the selected competitors.
RECURSIVE populate_all(_, _, _, _)
populate_all(w, classes, k, where) ==
  IF k = 0 THEN w
  ELSE LET w1 == populate_all(w, classes, k - 1, where)
           w2 == [w1 EXCEPT !.count[classes[k]] = 0]
       IN  populate(w2, classes[k], N_CREATURES, where, (k - 1) * N_CREATURES)

(* ------------------------------ the pipe ------------------------------ *)
\* The colours Simulation.reset gives the selected competitors, by position
\* in the list.
COLOURS == <<"#e6194b", "#0082c8">>

\* The class attribute colour of an occupant.
colour(kind, classes) ==
  CASE kind = "Soil" -> ""
    [] kind = "Plant" -> "#d2f53c"
    [] kind = "PoisonDrop" -> "black"
    [] OTHER -> COLOURS[CHOOSE k \in 1 .. Len(classes) : classes[k] = kind]

\* Snapshot(simulation), taken when the turn count is turn and game_over is
\* over; the turns per second are left out.
Snapshot(turn, over, classes, w) ==
  [turn_count |-> turn, game_over |-> over, competitor_classes |-> classes,
   counts |-> [k \in 1 .. Len(classes) |-> w.count[classes[k]]],
   colours |-> [i \in Cells |-> colour(w.heap[w.loc[i]].kind, classes)]]

NoMessage == [op |-> "none"]

\* One direction of the duplex Pipe(): the messages sent and not yet
\* received, in the order sent, with the history of how many were sent and
\* received, which was sent last and which was received last.
Pipe ==
  [tracked |-> TRUE, queue |-> <<>>, sent |-> 0, received |-> 0,
   latest |-> NoMessage, taken |-> NoMessage]

\* A direction whose traffic is not recorded: the commands arrive as the
\* simulation polls for them, the snapshots are sent and dropped.
Unrecorded == [Pipe EXCEPT !.tracked = FALSE]

\* A send that puts the message into the pipe twice.
send_twice(pipe, message) ==
  IF pipe.tracked
  THEN [pipe EXCEPT !.queue = Append(Append(@, message), message),
                    !.sent = @ + 2, !.latest = message]
  ELSE pipe

\* connection.send.
send(pipe, message) ==
  IF pipe.tracked
  THEN [pipe EXCEPT !.queue = Append(@, message), !.sent = @ + 1,
                    !.latest = message]
  ELSE pipe

\* connection.poll().
poll(pipe) == pipe.queue # <<>>

\* A recv that takes the message sent last.
recv_newest(pipe) ==
  [message |-> pipe.queue[Len(pipe.queue)],
   pipe |-> [pipe EXCEPT !.queue = SubSeq(@, 1, Len(@) - 1),
                         !.received = @ + 1,
                         !.taken = pipe.queue[Len(pipe.queue)]]]

\* connection.recv(): the message that was sent first, and the pipe without it.
recv(pipe) ==
  [message |-> Head(pipe.queue),
   pipe |-> [pipe EXCEPT !.queue = Tail(@), !.received = @ + 1,
                         !.taken = Head(pipe.queue)]]

\* The commands SimulationProxy sends; the interval is in milliseconds.
Command(op, classes, i) ==
  [op |-> op, competitor_classes |-> classes, interval |-> i]

Commands ==
  {Command("Reset", classes, i) : classes \in CompetitorLists, i \in Intervals}
    \cup {Command("SetInterval", <<>>, i) : i \in Intervals}
    \cup {Command("Start", <<>>, 0), Command("Pause", <<>>, 0)}

\* Simulation.process_commands receives command and runs it on the
\* simulation: the command is the one sent first of those waiting in the
\* pipe.  waited counts the world turns completed since it was sent.
Received(command) ==
  IF to_sim.tracked
  THEN /\ poll(to_sim)
       /\ recv(to_sim).message.command = command
       /\ to_sim' = recv(to_sim).pipe
  ELSE to_sim' = to_sim

\* A world turn has been completed while the commands in the pipe waited.
Waited(pipe) ==
  [pipe EXCEPT !.queue = [k \in DOMAIN @ |-> [@[k] EXCEPT !.waited = @ + 1]]]

\* The listeners before any snapshot was delivered.
NoShown == [snapshot |-> NoMessage, method |-> "", calls |-> 0]

\* The pipes' traffic and the GUI's listeners are left out of the state.
Unobserved ==
  /\ to_sim = Unrecorded
  /\ to_gui = Unrecorded
  /\ shown = NoShown

Init ==
  LET w == Renamed(world_reset(NoWorld))
  IN  /\ locations = w.loc
      /\ heap = w.heap
      /\ count = w.count
      /\ competitor_classes = <<>>
      /\ interval = InitialInterval
      /\ running = FALSE
      /\ game_over = FALSE
      /\ turn_count = 0
      /\ Unobserved
      /\ pc = "idle"
      /\ snapshot = <<>>
      /\ ix = 0
      /\ ops = 0
      /\ last = NoCall

\* Simulation.reset from world w with the selected classes and the random
\* draws plants (initial plant cover) and where (populate's cells).
reset(w, classes, plants, where) ==
  LET w1 == grow_initial_plants(world_reset(w), plants, NCells)
      w2 == populate_all(w1, classes, Len(classes), where)
  IN  Renamed([w2 EXCEPT !.heap = Reachable(w2, {})])

\* The grids a reset can produce.  World.reset discards every old occupant,
\* so the new grid and the selected species' counters depend on the draws
\* alone; they are computed once, from a freshly constructed world.
ResetOutcomes ==
  UNION {{[classes |-> classes, w |-> reset(world_reset(NoWorld), classes, plants, where)] :
            where \in Placements(N_CREATURES * Len(classes))} :
         classes \in CompetitorLists, plants \in PlantChoices}

\* ResetCommand -> Simulation.reset.  The counter of a species that is not
\* selected is what World.reset leaves of it.
Reset ==
  /\ pc = "idle"
  /\ \E o \in ResetOutcomes, i \in Intervals :
       /\ Received(Command("Reset", o.classes, i))
       /\ to_gui' = send(to_gui, Snapshot(0, FALSE, o.classes, o.w))
       /\ competitor_classes' = o.classes
       /\ interval' = i
       /\ locations' = o.w.loc
       /\ heap' = o.w.heap
       /\ count' = [s \in Species |->
                      IF s \in Range(o.classes) THEN o.w.count[s]
                      ELSE world_reset(World).count[s]]
  /\ running' = FALSE
  /\ game_over' = FALSE
  /\ turn_count' = 0
  /\ ops' = 0
  /\ last' = NoCall
  /\ UNCHANGED <<pc, snapshot, ix, shown>>

\* SetIntervalCommand -> Simulation.set_interval.
SetInterval ==
  /\ pc = "idle"
  /\ \E i \in Intervals :
       /\ Received(Command("SetInterval", <<>>, i))
       /\ interval' = i
  /\ UNCHANGED <<locations, heap, count, competitor_classes, running, game_over,
                 turn_count, pc, snapshot, ix, ops, last, to_gui, shown>>

\* Simulation.start clearing game_over as well.
Start_clearing_game_over ==
  /\ pc = "idle"
  /\ Received(Command("Start", <<>>, 0))
  /\ running' = TRUE
  /\ game_over' = FALSE
  /\ UNCHANGED <<locations, heap, count, competitor_classes, interval,
                 turn_count, pc, snapshot, ix, ops, last, to_gui, shown>>

\* StartCommand -> Simulation.start.
Start ==
  /\ pc = "idle"
  /\ Received(Command("Start", <<>>, 0))
  /\ running' = TRUE
  /\ UNCHANGED <<locations, heap, count, competitor_classes, interval, game_over,
                 turn_count, pc, snapshot, ix, ops, last, to_gui, shown>>

\* PauseCommand -> Simulation.pause.
Pause ==
  /\ pc = "idle"
  /\ Received(Command("Pause", <<>>, 0))
  /\ running' = FALSE
  /\ UNCHANGED <<locations, heap, count, competitor_classes, interval, game_over,
                 turn_count, pc, snapshot, ix, ops, last, to_gui, shown>>

(* ---------------------------- World.do_turn --------------------------- *)
\* A metabolism pass that stops after the first occupant, as a single loop
\* running each occupant's metabolic cycle just before its do_turn would
\* leave the grid when the first do_turn starts.
metabolism_pass_first_only(w, n) ==
  IF n = 0 THEN w ELSE f_metabolic_cycle(w, w.loc[0])

RECURSIVE metabolism_pass(_, _)
metabolism_pass(w, n) ==
  IF n = 0 THEN w
  ELSE f_metabolic_cycle(metabolism_pass(w, n - 1), w.loc[n - 1])

\* The copy self.locations[:] taken by the action pass.
locations_copy(w) == [k \in 1 .. NCells |-> w.loc[k - 1]]

\* The object whose do_turn the action pass calls at position k.
TurnOrder(k) == snapshot[k]

Actor == TurnOrder(ix)

\* A step of an action pass that iterates the live locations list: moving on
\* to position k reads the objects still to come from the list as it is now.
StepLive(w, k) ==
  LET rest == [j \in 1 .. NCells |->
                 IF j < k THEN None
                 ELSE IF k > ix THEN w.loc[j - 1] ELSE snapshot[j]]
  IN  /\ locations' = w.loc
      /\ heap' = Reachable(w, {rest[j] : j \in k .. NCells})
      /\ count' = w.count
      /\ snapshot' = rest
      /\ ix' = k
      /\ UNCHANGED <<competitor_classes, interval, running, game_over, turn_count, pc,
                     to_sim, to_gui, shown>>

\* The state after a step of the action pass that leaves it at position k.
Step(w, k) ==
  /\ locations' = w.loc
  /\ heap' = Reachable(w, {snapshot[j] : j \in k .. NCells})
  /\ count' = w.count
  /\ snapshot' = [j \in 1 .. NCells |-> IF j < k THEN None ELSE snapshot[j]]
  /\ ix' = k
  /\ UNCHANGED <<competitor_classes, interval, running, game_over, turn_count, pc,
                     to_sim, to_gui, shown>>

\* A run loop that ticks whenever the simulation is running.
RunCondition_while_running == running

\* The condition under which Simulation.run performs a tick.
RunCondition == running /\ ~game_over

\* Simulation.run, running and not game over: World.do_turn's metabolism
\* pass, up to the copy of the locations.  process_commands has emptied the
\* pipe before the tick starts; a command sent after that is sent during
\* the turn.
DoTurnMetabolism ==
  /\ pc = "idle"
  /\ RunCondition
  /\ ~poll(to_sim)
  /\ turn_count < MaxTurns
  /\ LET w == metabolism_pass(World, NCells)
     IN  /\ locations' = w.loc
         /\ heap' = w.heap
         /\ count' = w.count
         /\ snapshot' = locations_copy(w)
  /\ ix' = 1
  /\ pc' = "action"
  /\ UNCHANGED <<competitor_classes, interval, running, game_over, turn_count, ops, last,
                 to_sim, to_gui, shown>>

InActionPass == pc = "action" /\ ix <= NCells

\* creature.do_turn() has returned: f_cap_strength, then the next position.
Returned(w, c) ==
  /\ Step([f_cap_strength(w, c) EXCEPT !.heap[c].turns = @ + 1], ix + 1)
  /\ last' = NoCall

\* Soil.do_turn: with the random draw below the growth probability the soil
\* becomes a plant.
SoilTurn ==
  /\ InActionPass
  /\ heap[Actor].kind = "Soil"
  /\ \E grows \in BOOLEAN :
       IF grows
       THEN /\ heap[Actor].location \in GrowCells
            /\ ops < MaxOps
            /\ ops' = ops + 1
            /\ Returned(replace(WithPlant(World), Actor, NextId(World)), Actor)
       ELSE /\ ops' = ops
            /\ Returned(World, Actor)

\* Plant.do_turn: above MAX_STRENGTH it gives birth with half its strength
\* (strength / 2, rounded down here) in a random direction.
PlantTurn ==
  /\ InActionPass
  /\ heap[Actor].kind = "Plant"
  /\ IF heap[Actor].strength > MAX_STRENGTH
     THEN \E d \in Bearings :
            Returned(give_birth(World, Actor, heap[Actor].strength \div 2, d), Actor)
     ELSE Returned(World, Actor)
  /\ UNCHANGED ops

\* A PoisonDrop.do_turn that rounds the dissipated volume down.
PoisonDrop_do_turn_rounding_down(w, c) ==
  LET volume == w.heap[c].organs[1].volume \div 2
      w1 == remove_poison(w, c, 1, volume)
  IN  IF w1.heap[c].organs[1].volume <= 0 THEN f_die(w1, c) ELSE w1

\* PoisonDrop.do_turn: half the volume (rounded up) dissipates; the drop
\* dies once the reservoir is empty.
PoisonDrop_do_turn(w, c) ==
  LET volume == (w.heap[c].organs[1].volume + 1) \div 2
      w1 == remove_poison(w, c, 1, volume)
  IN  IF w1.heap[c].organs[1].volume <= 0 THEN f_die(w1, c) ELSE w1

PoisonDropTurn ==
  /\ InActionPass
  /\ heap[Actor].kind = "PoisonDrop"
  /\ Returned(PoisonDrop_do_turn(World, Actor), Actor)
  /\ UNCHANGED ops

\* A competitor's do_turn is in progress and may make one more call.
Behaving ==
  /\ InActionPass
  /\ heap[Actor].kind \in Species
  /\ ops < MaxOps

Organs(kind) == {o \in 1 .. Len(heap[Actor].organs) : heap[Actor].organs[o].kind = kind}

\* The competitor creates an organ: Organ.__init__.
CreateOrgan ==
  /\ Behaving
  /\ \E kind \in OrganKinds[heap[Actor].kind] :
       /\ Step(f_add_organ(World, Actor, kind), ix)
       /\ last' = Call("create", Actor, 0, "", creation_cost(kind), 0)
  /\ ops' = ops + 1

\* The competitor calls Cilia.move_in_direction.
MoveInDirection ==
  /\ Behaving
  /\ \E o \in Organs("Cilia"), bearing \in Bearings :
       /\ Step(move_in_direction(World, Actor, o, bearing), ix)
       /\ last' = Call("move", Actor, o, bearing, 0, 0)
  /\ ops' = ops + 1

\* The competitor calls Propagator.give_birth.
GiveBirth ==
  /\ Behaving
  /\ \E o \in Organs("Propagator"), initial_energy \in Stakes, direction \in Bearings :
       /\ Step(give_birth(World, Actor, initial_energy, direction), ix)
       /\ last' = Call("birth", Actor, o, direction, initial_energy, 0)
  /\ ops' = ops + 1

\* The competitor calls Cloaking.cloak.
Cloak ==
  /\ Behaving
  /\ \E o \in Organs("Cloaking") :
       /\ Step(cloak(World, Actor), ix)
       /\ last' = Call("cloak", Actor, o, "", 0, 0)
  /\ ops' = ops + 1

\* The competitor calls Sensor.sense.
Sense ==
  /\ Behaving
  /\ \E o \in Organs("EnergySensor"), direction \in Bearings :
       LET r == sense(World, Actor, direction)
       IN  /\ Step(r.w, ix)
           /\ last' = Call("sense", Actor, o, direction, 0, r.value)
  /\ ops' = ops + 1

\* The competitor calls PoisonGland.add_poison.
AddPoison ==
  /\ Behaving
  /\ \E o \in Organs("PoisonGland"), to_add \in PoisonAmounts :
       /\ Step(add_poison(World, Actor, o, to_add), ix)
       /\ last' = Call("add_poison", Actor, o, "", to_add, 0)
  /\ ops' = ops + 1

\* The competitor calls PoisonGland.drop_poison.
DropPoison ==
  /\ Behaving
  /\ \E o \in Organs("PoisonGland"), direction \in Bearings,
        volume_desired \in DropVolumes :
       /\ Step(drop_poison(World, Actor, o, direction, volume_desired), ix)
       /\ last' = Call("drop_poison", Actor, o, direction, volume_desired, 0)
  /\ ops' = ops + 1

\* The competitor's do_turn returns.
CreatureTurn ==
  /\ InActionPass
  /\ heap[Actor].kind \in Species
  /\ Returned(World, Actor)
  /\ UNCHANGED ops

\* A cleanup pass that starts at the second entry of the copy.
RECURSIVE cleanup_pass_from_second(_, _, _)
cleanup_pass_from_second(w, copy, n) ==
  IF n <= 1 THEN w
  ELSE LET w1 == cleanup_pass_from_second(w, copy, n - 1)
       IN  IF ~w1.heap[copy[n]].alive THEN replace(WithSoil(w1), copy[n], NextId(w1)) ELSE w1

\* The cleanup pass of World.do_turn over a copy of the locations.
RECURSIVE cleanup_pass(_, _, _)
cleanup_pass(w, copy, n) ==
  IF n = 0 THEN w
  ELSE LET w1 == cleanup_pass(w, copy, n - 1)
       IN  IF ~w1.heap[copy[n]].alive THEN replace(WithSoil(w1), copy[n], NextId(w1)) ELSE w1

\* check_win ending the game when at most one competitor is left.
check_win_at_most_one(w, classes, over) ==
  LET live_competitors ==
        Cardinality({k \in 1 .. Len(classes) : w.count[classes[k]] # 0})
  IN  IF live_competitors <= 1 THEN TRUE ELSE over

\* Simulation.check_win.
check_win(w, classes, over) ==
  LET live_competitors ==
        Cardinality({k \in 1 .. Len(classes) : w.count[classes[k]] # 0})
  IN  IF live_competitors = 1 THEN TRUE ELSE over

\* The end of World.do_turn (cleanup pass) and the rest of the tick:
\* turn_count += 1, check_win.
DoTurnCleanup ==
  /\ pc = "action"
  /\ ix = NCells + 1
  /\ LET w1 == cleanup_pass(World, locations_copy(World), NCells)
         w2 == Renamed([w1 EXCEPT !.heap = Reachable(w1, {})])
     IN  /\ locations' = w2.loc
         /\ heap' = w2.heap
         /\ count' = w2.count
         /\ game_over' = check_win(w2, competitor_classes, game_over)
         /\ to_gui' = send(to_gui,
                           Snapshot(turn_count + 1,
                                    check_win(w2, competitor_classes, game_over),
                                    competitor_classes, w2))
  /\ to_sim' = Waited(to_sim)
  /\ turn_count' = turn_count + 1
  /\ pc' = "idle"
  /\ snapshot' = <<>>
  /\ ix' = 0
  /\ last' = NoCall
  /\ UNCHANGED <<competitor_classes, interval, running, ops, shown>>

Next ==
  \/ Reset
  \/ Start
  \/ Pause
  \/ SetInterval
  \/ DoTurnMetabolism
  \/ SoilTurn
  \/ PlantTurn
  \/ PoisonDropTurn
  \/ CreateOrgan
  \/ MoveInDirection
  \/ GiveBirth
  \/ Cloak
  \/ Sense
  \/ AddPoison
  \/ DropPoison
  \/ CreatureTurn
  \/ DoTurnCleanup

Spec == Init /\ [][Next]_vars

(* ------------------- World.move and World.drop_beside ------------------ *)
\* The two operations that start a fight, applied to grids in the middle of
\* an action pass: a defender in the cell east of a creature, and two objects
\* outside the grid, one that was just constructed (a child or a poison
\* drop) and one that was consumed earlier in the turn.
FightStrengths == {0, 1, 2, 300, 1500}

Fighter(kind, strength, organs) ==
  [NewCreature(kind) EXCEPT !.strength = strength, !.organs = organs,
     !.poisonous = \E n \in 1 .. Len(organs) : organs[n].kind = "PoisonGland"]

Gland(volume) == [NewOrgan("PoisonGland") EXCEPT !.volume = volume]

PlantOf(strength) == [WithPlant(NoWorld).heap[1] EXCEPT !.strength = strength]

DropOf(volume) == WithPoisonDrop(NoWorld, volume).heap[1]

\* A creature that died and still holds its cell until the cleanup pass.
Corpse(kind, organs) ==
  [Fighter(kind, 0, organs) EXCEPT !.alive = FALSE, !.destroyed = 1]

FightDefenders ==
  {NewCreature("Soil")}
    \cup {PlantOf(s) : s \in {0, 2100}}
    \cup {DropOf(v) : v \in {0, 200}}
    \cup {Fighter("B", s, organs) :
            s \in FightStrengths,
            organs \in {<<>>, <<NewOrgan("Spikes")>>, <<Gland(300)>>}}
    \cup {Corpse("B", <<>>)}

FightMovers ==
  {Fighter("A", s, organs) :
     s \in FightStrengths,
     organs \in {<<NewOrgan("Cilia")>>, <<NewOrgan("Cilia"), NewOrgan("Spikes")>>}}

FightNewcomers ==
  {Fighter("A", s, <<>>) : s \in Stakes}
    \cup {PlantOf(1050)}
    \cup {DropOf(v) : v \in {0, 200}}

OriginCell == 1
DefenderCell == location_offset(OriginCell, "E")
Origin == OriginCell + 1
Newcomer == NCells + 1
Consumed == NCells + 2

InitFight ==
  \E d \in FightDefenders, m \in FightMovers, n \in FightNewcomers :
    LET object(id) ==
          CASE id = DefenderCell + 1 -> [d EXCEPT !.location = DefenderCell]
            [] id = Origin -> [m EXCEPT !.location = OriginCell]
            [] id = Newcomer -> n
            [] id = Consumed ->
                 [Corpse("A", <<NewOrgan("Cilia")>>) EXCEPT !.location = DefenderCell]
            [] OTHER -> [NewCreature("Soil") EXCEPT !.location = id - 1]
        objects == [id \in 1 .. Consumed |-> object(id)]
    IN  /\ locations = [i \in Cells |-> i + 1]
        /\ heap = objects
        /\ count = [s \in Species |->
                      Cardinality({id \in 1 .. Consumed :
                                     objects[id].kind = s /\ objects[id].alive})]
        /\ competitor_classes = <<"A", "B">>
        /\ interval = InitialInterval
        /\ running = TRUE
        /\ game_over = FALSE
        /\ turn_count = 0
        /\ Unobserved
        /\ pc = "fight"
        /\ snapshot = <<>>
        /\ ix = 0
        /\ ops = 0
        /\ last = NoCall

\* The record of a call of move or drop_beside: the creature passed as the
\* first argument, the object dropped (if any), the bearing, and the world
\* as it was before the call.
FightCall(op, c, dropped, bearing) ==
  [op |-> op, host |-> c, dropped |-> dropped, bearing |-> bearing,
   before |-> World]

Fought(w) ==
  /\ locations' = w.loc
  /\ heap' = w.heap
  /\ count' = w.count
  /\ pc' = "fought"
  /\ UNCHANGED <<competitor_classes, interval, running, game_over, turn_count, snapshot,
                 ix, ops, to_sim, to_gui, shown>>

\* World.move called for the creature in the grid or for the consumed one.
FightMove ==
  /\ pc = "fight"
  /\ \E attacker \in {Origin, Consumed}, bearing \in Bearings :
       /\ Fought(move(World, attacker, bearing))
       /\ last' = FightCall("move", attacker, None, bearing)

\* World.drop_beside called with the newcomer by the creature in the grid or
\* by the consumed one.
FightDrop ==
  /\ pc = "fight"
  /\ \E origin_creature \in {Origin, Consumed}, bearing \in Bearings :
       /\ Fought(drop_beside(World, origin_creature, Newcomer, bearing))
       /\ last' = FightCall("drop", origin_creature, Newcomer, bearing)

NextFight == FightMove \/ FightDrop

SpecFight == InitFight /\ [][NextFight]_vars

(* ------------------------ active organ operations --------------------- *)
\* A competitor's do_turn about to start in the middle of an action pass,
\* for a host that owns every active organ and whose strength is near or
\* below the use costs, next to a creature or to soil.
UseStrengths == {0, 1, 2, 20, 100, 1500}

ActiveOrgans ==
  <<NewOrgan("Cilia"), NewOrgan("Propagator"), NewOrgan("Cloaking"),
    NewOrgan("EnergySensor")>>

UseHosts ==
  {Fighter("A", s, ActiveOrgans) : s \in UseStrengths}
    \cup {Corpse("A", ActiveOrgans)}

UseTargets ==
  {NewCreature("Soil"), Fighter("B", 300, <<>>),
   Fighter("B", 1500, <<NewOrgan("Spikes")>>)}

InitUse ==
  \E h \in UseHosts, d \in UseTargets :
    LET object(id) ==
          CASE id = DefenderCell + 1 -> [d EXCEPT !.location = DefenderCell]
            [] id = Origin -> [h EXCEPT !.location = OriginCell]
            [] OTHER -> [NewCreature("Soil") EXCEPT !.location = id - 1]
        objects == [id \in 1 .. NCells |-> object(id)]
    IN  /\ locations = [i \in Cells |-> i + 1]
        /\ heap = objects
        /\ count = [s \in Species |->
                      Cardinality({id \in 1 .. NCells :
                                     objects[id].kind = s /\ objects[id].alive})]
        /\ competitor_classes = <<"A", "B">>
        /\ interval = InitialInterval
        /\ running = TRUE
        /\ game_over = FALSE
        /\ turn_count = 0
        /\ Unobserved
        /\ pc = "action"
        /\ snapshot = [j \in 1 .. NCells |-> IF j < Origin THEN None ELSE j]
        /\ ix = Origin
        /\ ops = 0
        /\ last = NoCall

NextUse == MoveInDirection \/ GiveBirth \/ Cloak \/ Sense \/ CreatureTurn

SpecUse == InitUse /\ [][NextUse]_vars

(* ------------------------------ properties ---------------------------- *)
KindsOfOccupant == {"Soil", "Plant", "PoisonDrop"} \cup Species

\* C1: in every state reached through construction, Reset and world turns,
\* every grid index holds an occupant (soil, plant, poison drop or creature);
\* no index is unset.
C1_EveryIndexOccupied ==
  \A i \in Cells :
    /\ locations[i] # None
    /\ locations[i] \in DOMAIN heap
    /\ heap[locations[i]].kind \in KindsOfOccupant

\* A turn has been completed after which the grid holds a poison drop, a
\* plant and a competitor's creature.
C1_Witness ==
  /\ pc = "idle" /\ turn_count >= 1
  /\ \E i, j, k \in Cells :
       /\ heap[locations[i]].kind = "PoisonDrop"
       /\ heap[locations[j]].kind = "Plant"
       /\ heap[locations[k]].kind \in Species

\* C2: within one World.do_turn no object's do_turn is called more than once.
C2_AtMostOnePerTurn == \A c \in DOMAIN heap : heap[c].turns <= 1

\* A creature whose do_turn has run has moved to an index the action pass
\* has not visited yet.
C2_Witness ==
  /\ pc = "action"
  /\ \E c \in DOMAIN heap :
       /\ heap[c].kind \in Species
       /\ heap[c].turns = 1
       /\ location_of(World, c) # NotFound
       /\ location_of(World, c) + 1 >= ix

\* C3 (as claimed): when World.do_turn has returned, every creature in the
\* grid has 0 <= strength <= MAX_STRENGTH.
C3_StrengthWithinCap ==
  (pc = "idle" /\ turn_count > 0) =>
    \A i \in Cells : /\ heap[locations[i]].strength >= 0
                     /\ heap[locations[i]].strength <= MAX_STRENGTH

\* C4: the destroyed hook has been called for an instance exactly once if it
\* is dead and never if it is alive, whatever calls it went through.
C4_DestroyedOnce ==
  \A c \in DOMAIN heap :
    heap[c].kind # "Soil" =>
      heap[c].destroyed = (IF heap[c].alive THEN 0 ELSE 1)

\* A creature that was already dead made a call whose charge drove it below
\* zero again, so that f_die ran on a dead creature.
C4_Witness ==
  /\ last.op = "create"
  /\ ~last.pre.alive
  /\ last.pre.strength < last.amount
  /\ heap[last.host].destroyed = 1

(* ------------------ properties of move and drop_beside ---------------- *)
\* The fight of the last call, when its first argument was located.
Located == pc = "fought" /\ location_of(last.before, last.host) # NotFound
Unlocated == pc = "fought" /\ location_of(last.before, last.host) = NotFound
StartCell == location_of(last.before, last.host)
Battleground == location_offset(StartCell, last.bearing)
Att == IF last.op = "move" THEN last.host ELSE last.dropped
Def == last.before.loc[Battleground]
AttBefore == last.before.heap[Att]
DefBefore == last.before.heap[Def]
Winner == locations[Battleground]
FightsBack(r) == r.kind \in Species \cup {"PoisonDrop"}

\* C5: when attacker and defender both fight back, the attacker wins if and
\* only if its strength is strictly greater; otherwise (equal or weaker) the
\* defender wins, the attacker is dead and the defender holds the cell.
C5_StrictlyStrongerWins ==
  (Located /\ FightsBack(AttBefore) /\ FightsBack(DefBefore)) =>
    /\ (Winner = Att) <=> (AttBefore.strength > DefBefore.strength)
    /\ (AttBefore.strength <= DefBefore.strength) =>
         (Winner = Def /\ ~heap[Att].alive /\ heap[Def].location = Battleground)

\* Two living creatures of equal, nonzero strength have fought.
C5_Witness ==
  /\ Located
  /\ AttBefore.kind \in Species /\ DefBefore.kind \in Species
  /\ AttBefore.alive /\ DefBefore.alive
  /\ AttBefore.strength = DefBefore.strength
  /\ AttBefore.strength > 0
  /\ Winner = Def

\* C6 (as claimed): when the defender is soil, a plant or a poison drop, the
\* attacker wins whatever its strength.
C6_NonFightersLose ==
  (Located /\ DefBefore.kind \in {"Soil", "Plant", "PoisonDrop"}) => Winner = Att

\* C7 (as claimed): after a fight the winner's strength is its strength
\* before plus the loser's strength before minus the loser's defensive
\* damage, and a winner for which that is negative is dead with strength 0.
C7_Conservation ==
  Located =>
    LET loser == IF Winner = Att THEN Def ELSE Att
        result == last.before.heap[Winner].strength
                    + last.before.heap[loser].strength
                    - f_defensive_damage(last.before.heap[loser])
    IN  /\ heap[Winner].alive => heap[Winner].strength >= 0
        /\ heap[Winner].strength = (IF result < 0 THEN 0 ELSE result)

\* C9: World.move of a located creature leaves fresh bare soil in the start
\* cell, the winner of the fight in the destination cell and every other
\* cell as it was; World.move of a creature that cannot be located changes
\* nothing.
C9_MoveFrame ==
  (pc = "fought" /\ last.op = "move") =>
    IF StartCell # NotFound
    THEN /\ locations[StartCell] \in DOMAIN heap
         /\ locations[StartCell] \notin DOMAIN last.before.heap
         /\ heap[locations[StartCell]] =
              [NewCreature("Soil") EXCEPT !.location = StartCell]
         /\ Winner \in {Att, Def}
         /\ heap[Winner].alive = last.before.heap[Winner].alive
         /\ heap[Winner].location = Battleground
         /\ \A i \in Cells \ {StartCell, Battleground} :
              /\ locations[i] = last.before.loc[i]
              /\ heap[locations[i]] = last.before.heap[locations[i]]
    ELSE /\ locations = last.before.loc
         /\ heap = last.before.heap
         /\ count = last.before.count

\* A located creature has moved into a cell it won.
C9_Witness ==
  /\ Located /\ last.op = "move"
  /\ Winner = Att
  /\ DefBefore.kind \in Species
  /\ heap[locations[StartCell]].kind = "Soil"

\* World.move was called for a creature that is in no cell.
C9_WitnessUnlocated ==
  /\ Unlocated /\ last.op = "move"
  /\ locations = last.before.loc

\* C10: World.drop_beside leaves the origin in its cell with its state as it
\* was, changes no cell other than the destination, which holds the winner
\* of the fight; when the origin cannot be located no cell changes.
C10_DropFrame ==
  (pc = "fought" /\ last.op = "drop") =>
    IF StartCell # NotFound
    THEN /\ locations[StartCell] = last.host
         /\ heap[last.host] = last.before.heap[last.host]
         /\ Winner \in {Att, Def}
         /\ \A i \in Cells \ {Battleground} :
              /\ locations[i] = last.before.loc[i]
              /\ heap[locations[i]] = last.before.heap[locations[i]]
    ELSE /\ locations = last.before.loc
         /\ heap = last.before.heap
         /\ count = last.before.count

\* A newcomer dropped by a located origin has taken the destination cell
\* from a creature.
C10_Witness ==
  /\ Located /\ last.op = "drop"
  /\ Winner = Att
  /\ DefBefore.kind \in Species /\ DefBefore.alive
  /\ locations[StartCell] = last.host

(* ---------------- properties of the active organ operations ----------- *)
ActiveOps == {"move", "birth", "cloak", "sense"}
OrganOf(op) ==
  CASE op = "move" -> "Cilia" [] op = "birth" -> "Propagator"
    [] op = "cloak" -> "Cloaking" [] op = "sense" -> "EnergySensor"

\* The host's strength and life once give_birth has expended the stake
\* (other operations expend nothing before the charge).
StakePaid(pre, op, amount) ==
  LET s == pre.strength - (IF op = "birth" THEN amount ELSE 0)
  IN  [strength |-> IF s < 0 THEN 0 ELSE s, alive |-> pre.alive /\ s >= 0]

C8_Step ==
  (ops' = ops + 1 /\ last'.op \in ActiveOps) =>
    LET c == last'.host
        op == last'.op
        pre == heap[c]
        paid == StakePaid(pre, op, last'.amount)
        charged == paid.strength - use_cost(OrganOf(op))
        survives == paid.alive /\ charged >= 0
        acts == survives /\ (op = "move" => pre.organs[last'.o].uses = 0)
    IN  /\ (~acts \/ op # "move") =>
             heap'[c].strength = (IF charged < 0 THEN 0 ELSE charged)
        /\ (acts /\ op = "move" /\ heap'[c].alive) =>
             heap'[c].strength =
               charged + last'.target.strength - f_defensive_damage(last'.target)
        /\ ~survives =>
             /\ ~heap'[c].alive
             /\ locations' = locations
             /\ heap'[c].cloaked = pre.cloaked
             /\ heap'[c].organs = pre.organs
             /\ \A id \in DOMAIN heap' \ {c} :
                  id \in DOMAIN heap /\ heap'[id] = heap[id]
             /\ count' = [count EXCEPT ![pre.kind] =
                                         IF pre.alive THEN @ - 1 ELSE @]
             /\ last'.value = 0

\* C8: every active organ operation (move, give birth, cloak, sense) charges
\* the use cost to the host whether or not it then acts, and when the charge
\* kills the host (or the host was dead) the grid, every other object, the
\* host's cloak and organs are unchanged, no child is counted and the sensor
\* returns 0.
C8_CommittingCharge == [][C8_Step]_vars

\* A living host too weak for the sensor's use cost sensed towards a creature
\* with strength: the charge killed it and the default value was returned.
C8_Witness ==
  /\ last.op = "sense"
  /\ last.pre.alive
  /\ last.pre.strength < use_cost("EnergySensor")
  /\ last.target.kind \in Species /\ last.target.strength > 0
  /\ ~heap[last.host].alive
  /\ last.value = 0

(* ------------------------ World._location_offset ---------------------- *)
\* _location_offset applied, for every width up to MaxWidth, to every start
\* index and bearing, and then to the result and the opposite bearing.
InitOffset ==
  /\ locations = <<>>
  /\ heap = <<>>
  /\ count = [s \in Species |-> 0]
  /\ competitor_classes = <<>>
  /\ interval = InitialInterval
  /\ running = FALSE
  /\ game_over = FALSE
  /\ turn_count = 0
  /\ Unobserved
  /\ pc = "offset"
  /\ snapshot = <<>>
  /\ ix = 0
  /\ ops = 0
  /\ \E width \in 1 .. MaxWidth, start \in 0 .. (MaxWidth * MaxWidth - 1),
        bearing \in DOMAIN Direction :
       /\ start < width * width
       /\ last = [op |-> "offset", width |-> width, start |-> start,
                  bearing |-> bearing, there |-> NotFound, back |-> NotFound]

OffsetThere ==
  /\ pc = "offset"
  /\ pc' = "there"
  /\ last' = [last EXCEPT
                !.there = location_offset_in(last.width, last.start, last.bearing)]
  /\ UNCHANGED <<locations, heap, count, competitor_classes, interval, running, game_over,
                 turn_count, snapshot, ix, ops, to_sim, to_gui, shown>>

OffsetBack ==
  /\ pc = "there"
  /\ pc' = "back"
  /\ last' = [last EXCEPT
                !.back = location_offset_in(last.width, last.there,
                                            opposite(last.bearing))]
  /\ UNCHANGED <<locations, heap, count, competitor_classes, interval, running, game_over,
                 turn_count, snapshot, ix, ops, to_sim, to_gui, shown>>

NextOffset == OffsetThere \/ OffsetBack

SpecOffset == InitOffset /\ [][NextOffset]_vars

\* C11: the offset location is an index of the grid, its column and row
\* differ from the start's by dx and dy modulo the width (column 0 moving
\* West lands on column width - 1 of the same row, row 0 moving North on row
\* width - 1 of the same column), and offsetting the result by the opposite
\* bearing returns to the start index.
C11_OffsetOnTorus ==
  (pc \in {"there", "back"}) =>
    LET w == last.width
        col(i) == i % w
        row(i) == i \div w
    IN  /\ last.there \in 0 .. (w * w - 1)
        /\ (col(last.there) - col(last.start) - dx(last.bearing)) % w = 0
        /\ (row(last.there) - row(last.start) - dy(last.bearing)) % w = 0
        /\ (last.bearing = "W" /\ col(last.start) = 0) =>
             last.there = last.start + w - 1
        /\ (last.bearing = "N" /\ row(last.start) = 0) =>
             last.there = last.start + w * (w - 1)
        /\ pc = "back" => last.back = last.start

\* In a world wider than two cells, an offset to the North-West from the
\* first index wrapped on both axes and the opposite offset came back.
C11_Witness ==
  /\ pc = "back"
  /\ last.width > 2
  /\ last.start = 0 /\ last.bearing = "NW"
  /\ last.there = last.width * last.width - 1
  /\ last.back = 0

(* ----------------------------- organ creation ------------------------- *)
\* create_organs without the comparison of strength and creation cost.
create_organ_unguarded(w, c, kind) == f_add_organ(w, c, kind)

\* One line of a competitor's create_organs: the organ is constructed only
\* if the creature's strength exceeds its creation cost.
create_organ_if_affordable(w, c, kind) ==
  IF w.heap[c].strength > creation_cost(kind) THEN f_add_organ(w, c, kind) ELSE w

\* A competitor's do_turn about to start, for a host that already holds no
\* organ or nearly MAX_ORGANS of them, rich or poorer than a creation cost.
OrganCounts == {0, MAX_ORGANS - 2, MAX_ORGANS - 1, MAX_ORGANS}
OrganStrengths == {40, 100, 101, 600, 1500}

OrganHosts ==
  {Fighter(kind, s, [n \in 1 .. k |-> NewOrgan("Spikes")]) :
     kind \in Species, s \in OrganStrengths, k \in OrganCounts}

InitOrgans ==
  \E h \in OrganHosts :
    LET object(id) ==
          IF id = Origin THEN [h EXCEPT !.location = OriginCell]
          ELSE [NewCreature("Soil") EXCEPT !.location = id - 1]
        objects == [id \in 1 .. NCells |-> object(id)]
    IN  /\ locations = [i \in Cells |-> i + 1]
        /\ heap = objects
        /\ count = [s \in Species |-> IF s = h.kind THEN 1 ELSE 0]
        /\ competitor_classes = <<"A", "B">>
        /\ interval = InitialInterval
        /\ running = TRUE
        /\ game_over = FALSE
        /\ turn_count = 0
        /\ Unobserved
        /\ pc = "action"
        /\ snapshot = [j \in 1 .. NCells |-> IF j < Origin THEN None ELSE j]
        /\ ix = Origin
        /\ ops = 0
        /\ last = NoCall

\* The competitor runs a line of its create_organs.
TryCreateOrgan ==
  /\ Behaving
  /\ \E kind \in OrganKinds[heap[Actor].kind] :
       /\ Step(create_organ_if_affordable(World, Actor, kind), ix)
       /\ last' = Call("try_create", Actor, 0, "", creation_cost(kind), 0)
  /\ ops' = ops + 1

NextOrgans == CreateOrgan \/ TryCreateOrgan \/ CreatureTurn

SpecOrgans == InitOrgans /\ [][NextOrgans]_vars

\* C12: no object ever has more than MAX_ORGANS organs attached.
C12_AtMostMaxOrgans ==
  \A c \in DOMAIN heap : Len(heap[c].organs) <= MAX_ORGANS

\* A living host that already had MAX_ORGANS organs and could pay for one
\* more constructed an organ: it was charged and the organ was not attached.
C12_Witness ==
  /\ last.op = "create"
  /\ last.pre.alive
  /\ Len(last.pre.organs) = MAX_ORGANS
  /\ last.pre.strength > last.amount
  /\ heap[last.host].organs = last.pre.organs
  /\ heap[last.host].strength = last.pre.strength - last.amount

C14_Step ==
  /\ (ops' = ops + 1 /\ last'.op = "move"
        /\ heap[last'.host].organs[last'.o].uses > 0) =>
       locations' = locations
  /\ \A c \in DOMAIN heap' : \A o \in 1 .. Len(heap'[c].organs) :
       heap'[c].organs[o].kind = "Cilia" => heap'[c].organs[o].uses <= 1
  /\ (pc = "action" /\ pc' = "action") =>
       \A c \in DOMAIN heap \cap DOMAIN heap' : \A o \in 1 .. Len(heap[c].organs) :
         heap'[c].organs[o].uses >= heap[c].organs[o].uses

\* C14: a move_in_direction call on an organ that has already moved its host
\* since the last metabolic cycle leaves the grid unchanged; the organ's use
\* counter never exceeds one and does not go down during the action pass
\* (only the metabolic cycle resets it).
C14_OneMovePerTurn == [][C14_Step]_vars

\* A living host that could pay the use cost called move_in_direction
\* towards soil on an organ already used this turn, and stayed where it was.
C14_Witness ==
  /\ last.op = "move"
  /\ last.pre.alive
  /\ last.pre.strength >= use_cost("Cilia")
  /\ last.pre.organs[last.o].uses = 1
  /\ last.target.kind = "Soil"
  /\ heap[last.host].alive
  /\ location_of(World, last.host) = last.pre.location

(* ------------------------------ PoisonGland --------------------------- *)
\* A competitor's do_turn about to start for a host with a PoisonGland whose
\* reservoir is empty, nearly full or full.  The host is as populate or a
\* turn left it, or has just won a fight against a loser with Spikes or with
\* a filled PoisonGland (__attacker_wins fed it the loser's strength minus
\* the loser's defensive damage).
GlandVolumes == {0, 900, RESERVOIR_CAPACITY}
GlandStrengths == {100, 1500}
GlandLosers ==
  {NewCreature("Soil"), Fighter("A", 0, <<NewOrgan("Spikes")>>),
   Fighter("A", 0, <<Gland(300)>>)}

WonAgainst(h, loser) ==
  [h EXCEPT !.strength = @ + loser.strength - f_defensive_damage(loser)]

GlandHosts ==
  {WonAgainst(Fighter("B", s, <<Gland(v)>>), loser) :
     s \in GlandStrengths, v \in GlandVolumes, loser \in GlandLosers}

\* The arguments a competitor may pass to add_poison, remove_poison and
\* drop_poison.
GlandArguments == {0 - 5, 0, 200, 500, 2000}

InitPoison ==
  \E h \in GlandHosts :
    LET object(id) ==
          IF id = Origin THEN [h EXCEPT !.location = OriginCell]
          ELSE [NewCreature("Soil") EXCEPT !.location = id - 1]
        objects == [id \in 1 .. NCells |-> object(id)]
    IN  /\ locations = [i \in Cells |-> i + 1]
        /\ heap = objects
        /\ count = [s \in Species |-> IF s = h.kind THEN 1 ELSE 0]
        /\ competitor_classes = <<"A", "B">>
        /\ interval = InitialInterval
        /\ running = TRUE
        /\ game_over = FALSE
        /\ turn_count = 0
        /\ Unobserved
        /\ pc = "action"
        /\ snapshot = [j \in 1 .. NCells |-> IF j < Origin THEN None ELSE j]
        /\ ix = Origin
        /\ ops = 0
        /\ last = NoCall

\* The competitor calls PoisonGland.add_poison with any argument.
AddPoisonAny ==
  /\ Behaving
  /\ \E o \in Organs("PoisonGland"), to_add \in GlandArguments :
       /\ Step(add_poison(World, Actor, o, to_add), ix)
       /\ last' = Call("add_poison", Actor, o, "", to_add, 0)
  /\ ops' = ops + 1

\* The competitor calls PoisonGland.remove_poison with any argument.
RemovePoisonAny ==
  /\ Behaving
  /\ \E o \in Organs("PoisonGland"), to_remove \in GlandArguments :
       /\ Step(remove_poison(World, Actor, o, to_remove), ix)
       /\ last' = Call("remove_poison", Actor, o, "", to_remove, 0)
  /\ ops' = ops + 1

\* The competitor calls PoisonGland.drop_poison with any argument.
DropPoisonAny ==
  /\ Behaving
  /\ \E o \in Organs("PoisonGland"), direction \in Bearings,
        volume_desired \in GlandArguments :
       /\ Step(drop_poison(World, Actor, o, direction, volume_desired), ix)
       /\ last' = Call("drop_poison", Actor, o, direction, volume_desired, 0)
  /\ ops' = ops + 1

NextPoison == AddPoisonAny \/ RemovePoisonAny \/ DropPoisonAny \/ CreatureTurn

SpecPoison == InitPoison /\ [][NextPoison]_vars

\* C15 (as claimed): add_poison with an amount larger than the headroom of
\* the reservoir, on a living host that can pay the amount, fills the
\* reservoir to RESERVOIR_CAPACITY and charges the host the headroom only.
C15_ChargedForAbsorbed ==
  (last.op = "add_poison" /\ last.pre.alive /\ last.amount > 0
     /\ last.pre.strength >= last.amount
     /\ last.amount > RESERVOIR_CAPACITY - last.pre.organs[last.o].volume) =>
    /\ heap[last.host].organs[last.o].volume = RESERVOIR_CAPACITY
    /\ heap[last.host].strength =
         last.pre.strength - (RESERVOIR_CAPACITY - last.pre.organs[last.o].volume)

\* C16 (as claimed): the volume of every poison reservoir is between 0 and
\* RESERVOIR_CAPACITY.
C16_VolumeWithinReservoir ==
  \A c \in DOMAIN heap : \A o \in 1 .. Len(heap[c].organs) :
    heap[c].organs[o].kind = "PoisonGland" =>
      /\ heap[c].organs[o].volume >= 0
      /\ heap[c].organs[o].volume <= RESERVOIR_CAPACITY

(* ------------------------------- Sensor ------------------------------- *)
\* A competitor's do_turn about to start for a host with one sensor of each
\* kind.  The host is in the grid, alive or dead, or was consumed earlier in
\* the turn: it is dead and the winner holds its cell.  The cell east of the
\* host (across the east edge of the grid) holds any kind of occupant,
\* cloaked or not, and the cell south of it holds a plant.
Sensors ==
  <<NewOrgan("EnergySensor"), NewOrgan("CreatureTypeSensor"),
    NewOrgan("LifeSensor"), NewOrgan("PoisonSensor")>>

SenseStrengths == {0, 1, 2, 1500}

SenseHosts ==
  {Fighter("A", s, Sensors) : s \in SenseStrengths} \cup {Corpse("A", Sensors)}

Cloaked(r) == [r EXCEPT !.cloaked = TRUE]

SenseTargets ==
  {NewCreature("Soil"), PlantOf(2100), DropOf(200),
   Fighter("B", 300, <<>>), Fighter("B", 300, <<Gland(300)>>),
   Cloaked(Fighter("B", 300, <<NewOrgan("Cloaking")>>)),
   Cloaked(Fighter("B", 300, <<NewOrgan("Cloaking"), Gland(300)>>))}

SouthCell == location_offset(OriginCell, "S")

InitSense ==
  \E h \in SenseHosts, d \in SenseTargets, located \in BOOLEAN :
    LET object(id) ==
          CASE id = DefenderCell + 1 -> [d EXCEPT !.location = DefenderCell]
            [] id = SouthCell + 1 -> [PlantOf(2100) EXCEPT !.location = SouthCell]
            [] id = Origin ->
                 [(IF located THEN h ELSE Fighter("B", 300, <<NewOrgan("Cilia")>>))
                    EXCEPT !.location = OriginCell]
            [] id = Consumed -> [h EXCEPT !.location = OriginCell]
            [] OTHER -> [NewCreature("Soil") EXCEPT !.location = id - 1]
        ids == (1 .. NCells) \cup (IF located THEN {} ELSE {Consumed})
        objects == [id \in ids |-> object(id)]
    IN  /\ located \/ ~h.alive
        /\ locations = [i \in Cells |-> i + 1]
        /\ heap = objects
        /\ count = [s \in Species |->
                      Cardinality({id \in ids :
                                     objects[id].kind = s /\ objects[id].alive})]
        /\ competitor_classes = <<"A", "B">>
        /\ interval = InitialInterval
        /\ running = TRUE
        /\ game_over = FALSE
        /\ turn_count = 0
        /\ Unobserved
        /\ pc = "action"
        /\ snapshot = [j \in 1 .. NCells |->
                         IF j < Origin THEN None
                         ELSE IF j = Origin /\ ~located THEN Consumed ELSE j]
        /\ ix = Origin
        /\ ops = 0
        /\ last = NoCall

\* The competitor calls sense on any of its sensors, in any direction.
SenseAny ==
  /\ Behaving
  /\ \E o \in 1 .. Len(heap[Actor].organs), direction \in DOMAIN Direction :
       /\ heap[Actor].organs[o].kind \in SensorKinds
       /\ LET r == Sensor_sense(World, Actor, heap[Actor].organs[o].kind, direction)
          IN  /\ Step(r.w, ix)
              /\ last' = Call("sense", Actor, o, direction, 0, r.value)
  /\ ops' = ops + 1

\* World.creature_at_offset_from applied to any creature and bearing.
CreatureAtOffsetFrom ==
  /\ Behaving
  /\ \E c \in DOMAIN heap, bearing \in DOMAIN Direction :
       /\ Step(World, ix)
       /\ last' = Call("creature_at_offset_from", c, 0, bearing, 0,
                       creature_at_offset_from(World, c, bearing))
  /\ ops' = ops + 1

NextSense == SenseAny \/ CreatureAtOffsetFrom \/ CreatureTurn

SpecSense == InitSense /\ [][NextSense]_vars

\* The kind of the sensor used by the last call of sense.
SensorUsed == last.pre.organs[last.o].kind

\* The target of the last call lies beyond an edge of the grid.
BeyondEdge ==
  LET start == location_of(World, last.host)
  IN  /\ start # NotFound
      /\ \/ (start % Width) + dx(last.bearing) \notin 0 .. (Width - 1)
         \/ (start \div Width) + dy(last.bearing) \notin 0 .. (Width - 1)

\* C17 (as claimed): sense towards a target beyond an edge of the grid
\* returns the values of bare soil.
C17_SoilBeyondEdge ==
  (last.op = "sense" /\ BeyondEdge) =>
    last.value = sensor_value(SensorUsed, NewCreature("Soil"))

\* C17: sense by a host that is in the grid and alive after the use cost
\* returns the apparent strength, type, life or poison flag (as the sensor's
\* kind has it) of the occupant of the index the direction points to, both
\* axes wrapping at the edges of the grid; sense by a host that the charge
\* killed, was dead or is not in the grid returns the values of bare soil;
\* creature_at_offset_from returns that occupant for a creature in the grid
\* and a fresh Soil for a creature that is not.
C17_SenseApparent ==
  /\ last.op = "sense" =>
       last.value =
         IF heap[last.host].alive /\ location_of(World, last.host) # NotFound
         THEN sensor_value(SensorUsed, last.target)
         ELSE sensor_value(SensorUsed, NewCreature("Soil"))
  /\ last.op = "creature_at_offset_from" =>
       last.value =
         IF location_of(World, last.host) # NotFound
         THEN heap[locations[location_offset(location_of(World, last.host),
                                             last.bearing)]]
         ELSE NewCreature("Soil")

\* A living host sensed across the east edge of the grid with its
\* CreatureTypeSensor and was told the type of the creature in the first
\* column of its row.
C17_Witness ==
  /\ last.op = "sense"
  /\ SensorUsed = "CreatureTypeSensor"
  /\ BeyondEdge
  /\ heap[last.host].alive
  /\ last.target.kind = "B" /\ ~last.target.cloaked
  /\ last.value = "B"

(* ------------------------------ check_win ----------------------------- *)
\* The action pass of a tick has just ended on a grid where populate stepped
\* on nobody: the first cells hold soil or competitors, alive or dead, and
\* each counter is the number of living instances.  The simulation goes on
\* from there as in Spec.
WinOccupants ==
  {NewCreature("Soil")}
    \cup {Fighter(s, START_STRENGTH, <<>>) : s \in Species}
    \cup {Corpse(s, <<>>) : s \in Species}

InitWin ==
  \E classes \in CompetitorLists, at \in [PlaceCells -> WinOccupants] :
    LET object(id) ==
          [(IF id - 1 \in PlaceCells THEN at[id - 1] ELSE NewCreature("Soil"))
             EXCEPT !.location = id - 1, !.cycles = 1, !.turns = 1]
        objects == [id \in 1 .. NCells |-> object(id)]
    IN  /\ locations = [i \in Cells |-> i + 1]
        /\ heap = objects
        /\ count = [s \in Species |->
                      Cardinality({id \in 1 .. NCells :
                                     objects[id].kind = s /\ objects[id].alive})]
        /\ competitor_classes = classes
        /\ interval = InitialInterval
        /\ running = TRUE
        /\ game_over = FALSE
        /\ turn_count = 0
        /\ Unobserved
        /\ pc = "action"
        /\ snapshot = [j \in 1 .. NCells |-> None]
        /\ ix = NCells + 1
        /\ ops = MaxOps
        /\ last = NoCall

SpecWin == InitWin /\ [][Next]_vars

\* The number of selected species with a nonzero instance count.
LiveCompetitors ==
  Cardinality({k \in 1 .. Len(competitor_classes) :
                 count[competitor_classes[k]] # 0})

\* C18: between the win check of a tick and the next tick or Reset, game_over
\* is set if and only if exactly one selected species has a nonzero instance
\* count; with none or with two or more the game is not over and, while
\* running, the condition of the next tick holds.
C18_GameOverIffOneLeft ==
  (pc = "idle" /\ turn_count > 0) =>
    /\ game_over <=> LiveCompetitors = 1
    /\ (LiveCompetitors # 1 /\ running) => RunCondition

\* Total extinction: a tick ended with no selected species left, the game
\* was not over and a further tick was made.
C18_Witness ==
  /\ pc = "idle" /\ turn_count > 1
  /\ competitor_classes # <<>>
  /\ LiveCompetitors = 0
  /\ running /\ ~game_over

(* ------------------------------- commands ----------------------------- *)
\* The simulation between two ticks, before any Reset or some ticks after
\* one: the grid and the counters are those a Reset produced (a counter
\* includes the instances populate stepped on), the game is over if and only
\* if one selected species is left, and the simulation runs or is paused.
\* Commands are processed from there; Reset is computed from the state it is
\* applied to.
InitReset ==
  \/ Init
  \/ \E o \in ResetOutcomes, t \in 1 .. MaxTurns, r \in BOOLEAN :
       /\ locations = o.w.loc
       /\ heap = o.w.heap
       /\ count = o.w.count
       /\ competitor_classes = o.classes
       /\ interval = InitialInterval
       /\ running = r
       /\ game_over =
            (Cardinality({k \in 1 .. Len(o.classes) : o.w.count[o.classes[k]] # 0}) = 1)
       /\ turn_count = t
       /\ Unobserved
       /\ pc = "idle"
       /\ snapshot = <<>>
       /\ ix = 0
       /\ ops = 0
       /\ last = NoCall

\* ResetCommand -> Simulation.reset, applied to the current world.
ResetCommand ==
  /\ pc = "idle"
  /\ \E classes \in CompetitorLists, plants \in PlantChoices, i \in Intervals :
       \E where \in Placements(N_CREATURES * Len(classes)) :
         LET w == reset(World, classes, plants, where)
         IN  /\ Received(Command("Reset", classes, i))
             /\ to_gui' = send(to_gui, Snapshot(0, FALSE, classes, w))
             /\ competitor_classes' = classes
             /\ interval' = i
             /\ locations' = w.loc
             /\ heap' = w.heap
             /\ count' = w.count
  /\ running' = FALSE
  /\ game_over' = FALSE
  /\ turn_count' = 0
  /\ ops' = 0
  /\ last' = NoCall
  /\ UNCHANGED <<pc, snapshot, ix, shown>>

NextReset == ResetCommand \/ Start \/ Pause \/ SetInterval

SpecReset == InitReset /\ [][NextReset]_vars

\* The instances of a species that are in the grid.
InGrid(s) == {i \in Cells : heap[locations[i]].kind = s}

C19_Step ==
  ResetCommand =>
    /\ \A k \in 1 .. Len(competitor_classes') :
         count'[competitor_classes'[k]] = N_CREATURES
    /\ turn_count' = 0
    /\ ~running'
    /\ ~game_over'

\* C19: a Reset command with any list of selected species, applied in any
\* state between two ticks, leaves the instance count of each selected
\* species at N_CREATURES, the turn count at 0, and the simulation stopped
\* and not game over.
C19_ResetCounts == [][C19_Step]_vars

\* A Reset selected two species: each is counted N_CREATURES times although
\* populate stepped on every instance of the first.
C19_Witness ==
  /\ pc = "idle" /\ turn_count = 0 /\ ~running /\ ~game_over
  /\ competitor_classes = <<"A", "B">>
  /\ count["A"] = N_CREATURES /\ count["B"] = N_CREATURES
  /\ InGrid("A") = {}

C20_Step ==
  /\ Start => /\ running'
              /\ UNCHANGED <<game_over, turn_count, interval, locations, heap>>
  /\ Pause => /\ ~running'
              /\ UNCHANGED <<game_over, turn_count, interval, locations, heap>>
  /\ SetInterval => UNCHANGED <<running, game_over, turn_count, locations, heap>>

\* C20: Start sets running and Pause clears it, and neither changes
\* game_over, the turn count, the interval or the grid; SetInterval leaves
\* running, game_over, the turn count and the grid unchanged.
C20_CommandFrames == [][C20_Step]_vars

\* The simulation was paused after the tick that ended the game: the turn
\* count and game_over are as the tick left them.
C20_Witness ==
  /\ pc = "idle"
  /\ turn_count > 0
  /\ game_over
  /\ ~running

(* -------------------------- order of the passes ----------------------- *)
C24_Step ==
  /\ (pc = "idle" /\ pc' = "action") =>
       /\ locations' = locations
       /\ \A i \in Cells : heap'[locations'[i]].cycles = 1
       /\ \A c \in DOMAIN heap' : heap'[c].turns = 0
  /\ (pc = "action" /\ pc' = "action") =>
       /\ \A k \in ix .. NCells : heap[snapshot[k]].cycles = 1
       /\ \A c \in DOMAIN heap' :
            heap'[c].cycles = IF c \in DOMAIN heap THEN heap[c].cycles ELSE 0
  /\ (pc = "action" /\ pc' = "idle") =>
       /\ ix = NCells + 1
       /\ \A c \in DOMAIN heap : heap[c].cycles = 1 => heap[c].turns = 1

\* C24: the step that starts the action pass of World.do_turn has run the
\* metabolic cycle of every occupant of the grid, which it leaves as it was,
\* before the do_turn of any; no metabolic cycle runs during the action pass,
\* where every occupant still to act has had its own; and the cleanup pass
\* starts when the action pass has reached the end of its copy, every
\* occupant of the pre-turn grid that is still referenced having had its
\* do_turn.
C24_PassesInOrder == [][C24_Step]_vars

\* The action pass is at its last position, after a call by a competitor,
\* and the grid holds an object created during the turn that had no
\* metabolic cycle.
C24_Witness ==
  /\ pc = "action" /\ ix = NCells
  /\ \E c \in DOMAIN heap : heap[c].kind \in Species /\ heap[c].turns = 1
  /\ \E i \in Cells : heap[locations[i]].cycles = 0

(* ----------------------------- cleanup pass --------------------------- *)
\* The occupant of cell i.
Occupant(i) == heap[locations[i]]

C25_Step ==
  /\ pc = "idle" => \A i \in Cells : Occupant(i).alive
  /\ (pc = "action" /\ pc' = "idle") =>
       \A i \in Cells :
         IF Occupant(i).alive
         THEN /\ Occupant(i)'.kind = Occupant(i).kind
              /\ Occupant(i)'.strength = Occupant(i).strength
              /\ Occupant(i)'.organs = Occupant(i).organs
         ELSE Occupant(i)' = [NewCreature("Soil") EXCEPT !.location = i]

\* C25: between two world turns no cell of the grid holds a dead occupant;
\* the step in which World.do_turn returns replaces every dead occupant of
\* the grid by a fresh Soil and leaves every living occupant in its cell.
C25_NoDeadAfterTurn == [][C25_Step]_vars

\* A world turn has ended in which every competitor had died in the grid:
\* the grid holds soil only.
C25_Witness ==
  /\ pc = "idle" /\ turn_count = 1
  /\ \A s \in Species : count[s] = 0
  /\ \A i \in Cells : Occupant(i).kind = "Soil"

(* ------------------------ Propagator.give_birth ----------------------- *)
C26_Step ==
  (ops' = ops + 1 /\ last'.op = "birth" /\ heap[last'.host].alive) =>
    LET c == last'.host
        kind == heap[c].kind
        s == heap[c].strength
        stake == last'.amount
        left == s - stake - use_cost("Propagator")
        born == s - stake >= 0 /\ left >= 0
        start == location_of(World, c)
        battleground == location_offset(start, last'.bearing)
        target == last'.target
        child_wins == ~f_fights_back(target) \/ stake > target.strength
        killed(sp) == IF child_wins /\ target.alive /\ target.kind = sp
                      THEN 1 ELSE 0
    IN  /\ heap'[c].alive <=> born
        /\ born =>
             /\ heap'[c].strength = left
             /\ locations'[start] = c
             /\ \A i \in Cells \ {battleground} : locations'[i] = locations[i]
             /\ IF child_wins
                THEN /\ locations'[battleground] \notin DOMAIN heap
                     /\ heap'[locations'[battleground]].kind = kind
                     /\ heap'[locations'[battleground]].alive
                     /\ heap'[locations'[battleground]].strength =
                          stake + target.strength - f_defensive_damage(target)
                ELSE /\ locations'[battleground] = locations[battleground]
                     /\ heap'[locations'[battleground]].strength =
                          target.strength + (IF target.alive THEN stake ELSE 0)
                     /\ DOMAIN heap' \subseteq DOMAIN heap
             /\ count' = [sp \in Species |->
                            count[sp] - killed(sp)
                              + (IF sp = kind /\ child_wins THEN 1 ELSE 0)]
        /\ ~born =>
             /\ heap'[c].strength = 0
             /\ locations' = locations
             /\ DOMAIN heap' \subseteq DOMAIN heap
             /\ count' = [count EXCEPT ![kind] = @ - 1]

\* C26: give_birth(stake, direction) by a living host of strength s creates
\* a child if and only if s - stake >= 0 and s - stake - 100 >= 0, the host
\* being alive after both charges; the host then has strength s - stake - 100
\* and keeps its cell, and the child contests the adjacent cell with strength
\* stake: it takes the cell with the stake plus what the fight feeds it and
\* is counted, or it dies, the defender is fed the stake and the counter ends
\* where it was.  Otherwise the host is dead, the grid is unchanged, no
\* object is created and no instance is counted.
C26_BirthCharges == [][C26_Step]_vars

\* A host with strength 1500 gave birth with stake 1400: it is alive with
\* strength 0 and its child holds the adjacent cell.
C26_Witness ==
  /\ last.op = "birth"
  /\ last.pre.alive /\ last.pre.strength = last.amount + use_cost("Propagator")
  /\ heap[last.host].alive /\ heap[last.host].strength = 0
  /\ \E i \in Cells :
       /\ Occupant(i).kind = last.pre.kind
       /\ locations[i] # last.host
       /\ Occupant(i).strength >= last.amount

\* C27: expend(amount) on a living creature (Creature.f_expend, which Soil and
\* PoisonDrop override) lowers the strength by the amount and kills the
\* creature exactly when the result is strictly negative: a result of exactly
\* zero leaves it alive with strength zero, a result below zero leaves it dead
\* with strength zero and its class counter decremented once.  Checked on the
\* creation charge of a freshly attached organ.
C27_Step ==
  (ops' = ops + 1 /\ last'.op = "create" /\ heap[last'.host].alive) =>
    LET c == last'.host
        result == heap[c].strength - last'.amount
    IN  /\ heap'[c].alive <=> result >= 0
        /\ heap'[c].strength = IF result < 0 THEN 0 ELSE result
        /\ heap'[c].destroyed = heap[c].destroyed + IF result < 0 THEN 1 ELSE 0
        /\ count'[heap[c].kind] = count[heap[c].kind] - IF result < 0 THEN 1 ELSE 0

C27_ExpendKillsBelowZero == [][C27_Step]_vars

C27_Witness ==
  /\ last.op = "create"
  /\ last.pre.strength = last.amount
  /\ heap[last.host].alive
  /\ heap[last.host].strength = 0

\* C29: in every reachable state each occupant of the grid records the index
\* of the cell that holds it and no object is held by two cells, so that
\* World.location_of fails exactly for the objects that no cell holds.
C29_LocationsConsistent ==
  /\ \A i \in Cells : heap[locations[i]].location = i
  /\ \A i, j \in Cells : locations[i] = locations[j] => i = j
  /\ \A c \in DOMAIN heap :
       location_of(World, c) = NotFound <=> \A i \in Cells : locations[i] # c

\* A creature has moved into another cell, and the object it took the cell
\* from is now in no cell although it still records that index.
C29_Witness ==
  /\ pc = "action" /\ last.op = "move"
  /\ location_of(World, last.host) # NotFound
  /\ location_of(World, last.host) # last.pre.location
  /\ \E c \in DOMAIN heap :
       /\ c # last.host
       /\ heap[c].location = location_of(World, last.host)
       /\ location_of(World, c) = NotFound

\* C30: at every turn boundary (after Reset and after each World.do_turn) the
\* instance counter of each selected species equals the number of living
\* creatures of that species held by the grid.
C30_CountsMatchGrid ==
  pc = "idle" =>
    \A k \in DOMAIN competitor_classes :
      count[competitor_classes[k]] =
        Cardinality({i \in Cells : /\ Occupant(i).kind = competitor_classes[k]
                                   /\ Occupant(i).alive})

(* ---------------------- the two processes and the pipe ----------------- *)
\* The GUI process and the simulation process, with the traffic of the pipe
\* between them recorded.  The GUI sends at most MaxCommands commands at any
\* moment of the simulation's loop, and its receiver runs at any moment.
MaxCommands == 3

\* A receive loop that keeps the first snapshot it took instead of the last.
RECURSIVE drain_keeping_first(_, _)
drain_keeping_first(pipe, got) ==
  IF poll(pipe)
  THEN drain_keeping_first(recv(pipe).pipe,
                           IF got = NoMessage THEN recv(pipe).message ELSE got)
  ELSE [pipe |-> pipe, snapshot |-> got]

\* The loop of Receiver.receive: while connection.poll(), snapshot =
\* connection.recv().
RECURSIVE drain(_, _)
drain(pipe, got) ==
  IF poll(pipe)
  THEN drain(recv(pipe).pipe, recv(pipe).message)
  ELSE [pipe |-> pipe, snapshot |-> got]

\* Receiver.receive: the listeners are given the snapshot the loop ended
\* with, if any: initialize for turn count 0, changed otherwise.
Receive ==
  /\ to_gui.tracked
  /\ LET got == drain(to_gui, NoMessage)
     IN  /\ to_gui' = got.pipe
         /\ shown' = IF got.snapshot = NoMessage THEN shown
                     ELSE [snapshot |-> got.snapshot,
                           method |-> IF got.snapshot.turn_count = 0
                                      THEN "initialize" ELSE "changed",
                           calls |-> shown.calls + 1]
  /\ UNCHANGED <<locations, heap, count, competitor_classes, interval, running,
                 game_over, turn_count, pc, snapshot, ix, ops, last, to_sim>>

\* The command as it travels: seq is its position among the commands sent,
\* waited the world turns completed since it was sent.
Sent(pipe, command) ==
  send(pipe, [command |-> command, seq |-> pipe.sent + 1, waited |-> 0])

\* SimulationProxy.reset: connection.send(ResetCommand(...)).
SimulationProxy_reset ==
  /\ to_sim.sent < MaxCommands
  /\ \E classes \in CompetitorLists, i \in Intervals :
       to_sim' = Sent(to_sim, Command("Reset", classes, i))
  /\ UNCHANGED <<locations, heap, count, competitor_classes, interval, running,
                 game_over, turn_count, pc, snapshot, ix, ops, last, to_gui, shown>>

\* SimulationProxy.set_interval.
SimulationProxy_set_interval ==
  /\ to_sim.sent < MaxCommands
  /\ \E i \in Intervals : to_sim' = Sent(to_sim, Command("SetInterval", <<>>, i))
  /\ UNCHANGED <<locations, heap, count, competitor_classes, interval, running,
                 game_over, turn_count, pc, snapshot, ix, ops, last, to_gui, shown>>

\* SimulationProxy.start.
SimulationProxy_start ==
  /\ to_sim.sent < MaxCommands
  /\ to_sim' = Sent(to_sim, Command("Start", <<>>, 0))
  /\ UNCHANGED <<locations, heap, count, competitor_classes, interval, running,
                 game_over, turn_count, pc, snapshot, ix, ops, last, to_gui, shown>>

\* SimulationProxy.pause.
SimulationProxy_pause ==
  /\ to_sim.sent < MaxCommands
  /\ to_sim' = Sent(to_sim, Command("Pause", <<>>, 0))
  /\ UNCHANGED <<locations, heap, count, competitor_classes, interval, running,
                 game_over, turn_count, pc, snapshot, ix, ops, last, to_gui, shown>>

\* Both processes after construction, the pipe empty.
InitPipe ==
  LET w == Renamed(world_reset(NoWorld))
  IN  /\ locations = w.loc
      /\ heap = w.heap
      /\ count = w.count
      /\ competitor_classes = <<>>
      /\ interval = InitialInterval
      /\ running = FALSE
      /\ game_over = FALSE
      /\ turn_count = 0
      /\ pc = "idle"
      /\ snapshot = <<>>
      /\ ix = 0
      /\ ops = 0
      /\ last = NoCall
      /\ to_sim = Pipe
      /\ to_gui = Pipe
      /\ shown = NoShown

NextPipe ==
  \/ SimulationProxy_reset
  \/ SimulationProxy_set_interval
  \/ SimulationProxy_start
  \/ SimulationProxy_pause
  \/ Receive
  \/ Reset
  \/ Start
  \/ Pause
  \/ SetInterval
  \/ DoTurnMetabolism
  \/ SoilTurn
  \/ PlantTurn
  \/ CreatureTurn
  \/ DoTurnCleanup

SpecPipe == InitPipe /\ [][NextPipe]_vars

(* ------------------------ properties of the loop ----------------------- *)
\* This step of process_commands received a command.
Applying == to_sim'.received = to_sim.received + 1

\* This step ran a ResetCommand on the simulation.
Resetting == Applying /\ to_sim'.taken.command.op = "Reset"

C21_Step ==
  /\ (pc = "idle" /\ (~running \/ game_over)) =>
       /\ pc' = "idle"
       /\ \/ Resetting
          \/ /\ turn_count' = turn_count
             /\ locations' = locations
             /\ heap' = heap
             /\ count' = count
             /\ to_gui'.sent = to_gui.sent
  /\ game_over => pc = "idle"
  /\ (game_over /\ ~Resetting) => game_over'

\* C21: while the simulation is stopped or the game is over no world turn is
\* executed: between ticks the turn count and the grid stay as they are and
\* no snapshot is sent, unless a Reset is applied; once the game is over,
\* Start, Pause and SetInterval leave it over, so that no tick follows, and
\* only Reset clears game_over.
C21_NoTurnWhileStopped == [][C21_Step]_vars

\* A Start sent during the tick that ended the game has been applied after
\* it: the simulation is running, the game is over and the turn count is
\* that of the tick.
C21_Witness ==
  /\ pc = "idle"
  /\ game_over /\ running
  /\ turn_count = 1
  /\ to_sim.taken # NoMessage
  /\ to_sim.taken.command.op = "Start"
  /\ to_sim.taken.waited = 1

\* This step ends a tick: World.do_turn returns, the turn is counted, the
\* win is checked and the snapshot is sent.
TickEnds == pc = "action" /\ pc' = "idle"

C22_Step ==
  /\ (pc = "idle" /\ pc' = "action") =>
       /\ to_gui' = to_gui
       /\ turn_count' = turn_count
  /\ (pc = "action" /\ pc' = "action") =>
       /\ to_gui'.sent = to_gui.sent
       /\ turn_count' = turn_count
  /\ TickEnds =>
       /\ \A c \in DOMAIN heap : heap[c].cycles <= 1 /\ heap[c].turns <= 1
       /\ turn_count' = turn_count + 1
       /\ to_gui'.sent = to_gui.sent + 1
       /\ to_gui'.queue = Append(to_gui.queue, to_gui'.latest)
       /\ to_gui'.latest =
            Snapshot(turn_count + 1, game_over', competitor_classes,
                     [loc |-> locations', heap |-> heap', count |-> count'])
  /\ to_gui'.sent # to_gui.sent =>
       /\ to_gui'.sent = to_gui.sent + 1
       /\ \/ Resetting /\ to_gui'.latest.turn_count = 0
          \/ /\ TickEnds
             /\ to_gui.sent > 0 =>
                  to_gui'.latest.turn_count = to_gui.latest.turn_count + 1
  /\ \A k \in 1 .. Len(to_gui'.queue) - 1 :
       \/ to_gui'.queue[k + 1].turn_count = 0
       \/ to_gui'.queue[k + 1].turn_count = to_gui'.queue[k].turn_count + 1

\* C22: each tick runs World.do_turn once, adds one to the turn count and
\* then sends exactly one snapshot, which carries the new turn count, the
\* game_over flag as the win check left it, and the counts and colours of
\* the grid after the turn; the snapshots sent from one Reset to the next
\* carry the turn counts 0, 1, 2, ... without a gap or a repeat.
C22_OneSnapshotPerTick == [][C22_Step]_vars

\* The snapshots of a Reset and of the two ticks after it wait in the pipe;
\* the last one shows a creature of each of the two species.
C22_Witness ==
  /\ pc = "idle"
  /\ Len(to_gui.queue) = 3
  /\ \A k \in 1 .. 3 : to_gui.queue[k].turn_count = k - 1
  /\ to_gui.queue[3].counts = <<N_CREATURES, N_CREATURES>>
  /\ \A k \in 1 .. 2 : \E i \in Cells : to_gui.queue[3].colours[i] = COLOURS[k]

C23_Step ==
  /\ to_gui'.received # to_gui.received =>
       /\ poll(to_gui)
       /\ to_gui'.queue = <<>>
       /\ to_gui'.received = to_gui.received + Len(to_gui.queue)
       /\ to_gui'.sent = to_gui.sent
       /\ shown'.snapshot = to_gui.queue[Len(to_gui.queue)]
       /\ shown'.snapshot = to_gui.latest
       /\ shown'.method = IF to_gui.latest.turn_count = 0
                          THEN "initialize" ELSE "changed"
       /\ shown'.calls = shown.calls + 1
       /\ UNCHANGED <<locations, heap, count, competitor_classes, interval,
                      running, game_over, turn_count, pc, snapshot, ix, to_sim>>
  /\ to_gui'.received = to_gui.received => shown' = shown
  /\ to_gui'.sent # to_gui.sent =>
       /\ to_gui'.received = to_gui.received
       /\ to_gui'.queue = Append(to_gui.queue, to_gui'.latest)

\* C23: each run of the receiver takes every snapshot waiting in the pipe
\* and gives the listeners only the one sent last (nothing when none is
\* waiting), and leaves the simulation as it is; the simulation sends each
\* snapshot behind those still waiting, however many the receiver has left
\* in the pipe, without a step of the receiver.
C23_ReceiverDrains == [][C23_Step]_vars

\* The receiver ran for the first time after a Reset and two ticks, which
\* the simulation completed without it: it took three snapshots and the
\* listeners were called once, with the last.
C23_Witness ==
  /\ to_gui.received = 3
  /\ to_gui.queue = <<>>
  /\ shown.calls = 1
  /\ shown.method = "changed"
  /\ shown.snapshot.turn_count = 2

\* The command this step received.
Applied == to_sim'.taken.command

C28_Step ==
  /\ Applying =>
       /\ pc = "idle" /\ pc' = "idle"
       /\ to_sim'.taken = Head(to_sim.queue)
       /\ to_sim'.taken.seq = to_sim.received + 1
       /\ to_sim'.taken.waited <= 1
       /\ to_sim'.queue = Tail(to_sim.queue)
       /\ Applied.op = "Start" => running'
       /\ Applied.op = "Pause" => ~running'
       /\ Applied.op = "SetInterval" => interval' = Applied.interval
       /\ Applied.op = "Reset" =>
            /\ competitor_classes' = Applied.competitor_classes
            /\ interval' = Applied.interval
            /\ turn_count' = 0
            /\ ~running' /\ ~game_over'
  /\ ~Applying =>
       /\ to_sim'.received = to_sim.received
       /\ UNCHANGED <<running, interval, competitor_classes>>
       /\ turn_count' \in {turn_count, turn_count + 1}
  /\ \A k \in 1 .. Len(to_sim'.queue) :
       /\ to_sim'.queue[k].seq = to_sim'.received + k
       /\ to_sim'.queue[k].waited <= 1
  /\ (pc = "idle" /\ pc' = "action") => ~poll(to_sim)

\* C28: the commands are applied between ticks only, one by one in the order
\* they were sent; a command sent while a world turn is under way changes
\* nothing of the simulation before the turn has ended, and no more than one
\* world turn is completed between the sending of a command (a Pause or a
\* Reset in particular) and its application.
C28_CommandsBetweenTicks == [][C28_Step]_vars

\* A Pause sent while a world turn was under way has been applied after that
\* turn; it was the last of three commands.
C28_Witness ==
  /\ pc = "idle"
  /\ ~running
  /\ turn_count >= 1
  /\ to_sim.received = MaxCommands
  /\ to_sim.taken.command.op = "Pause"
  /\ to_sim.taken.waited = 1

(* ------------------ initialization before the updates ----------------- *)
\* This step is a run of the receiver that called the listeners.
Delivering == to_gui'.received # to_gui.received

\* C31: for every Reset the listeners are given the snapshot of the Reset
\* (turn count 0) by initialize before they are given a snapshot of that
\* game by changed: a run of the receiver that calls changed has taken no
\* snapshot with turn count 0 out of the pipe.
C31_Step ==
  (Delivering /\ shown'.method = "changed") =>
    \A k \in 1 .. Len(to_gui.queue) : to_gui.queue[k].turn_count # 0

C31_InitializeFirst == [][C31_Step]_vars

(* ------------------- newcomers wait for the next turn ------------------ *)
\* The objects that were constructed by this step.
Constructed == DOMAIN heap' \ DOMAIN heap

\* C32: an object that enters the grid during the action pass of a world
\* turn (a child, a poison drop, a plant grown from soil, the soil a move
\* leaves behind) gets neither a metabolic cycle nor a do_turn in that world
\* turn: it is constructed with none, still has none when the pass ends, and
\* gets its first metabolic cycle from the metabolism pass of the next turn.
C32_Step ==
  /\ (pc = "action" /\ pc' = "action") =>
       /\ \A c \in Constructed : heap'[c].cycles = 0 /\ heap'[c].turns = 0
       /\ \A c \in DOMAIN heap \cap DOMAIN heap' :
            heap[c].cycles = 0 => (heap'[c].cycles = 0 /\ heap'[c].turns = 0)
  /\ TickEnds =>
       \A i \in Cells : Occupant(i).cycles = 0 => Occupant(i).turns = 0
  /\ (pc = "idle" /\ pc' = "action") =>
       \A i \in Cells :
         /\ Occupant(i).cycles = 0 /\ Occupant(i).turns = 0
         /\ heap'[locations'[i]].cycles = 1

C32_NewcomersWait == [][C32_Step]_vars

\* The action pass has ended and the grid holds a creature or a poison drop
\* that entered it during the pass and had no turn.
C32_Witness ==
  /\ pc = "action" /\ ix = NCells + 1
  /\ \E i \in Cells :
       /\ Occupant(i).kind \in Species \cup {"PoisonDrop"}
       /\ Occupant(i).alive
       /\ Occupant(i).cycles = 0
       /\ Occupant(i).turns = 0

(* ------------------------- the dead stay at zero ----------------------- *)
\* The simulation between two ticks, some turns into a game: a creature that
\* has grown organs and spent its strength (add_poison takes all the host
\* has, a use cost may leave exactly 0) beside a plant, a poison drop, a
\* creature or bare soil.  The ticks go on from there; the competitors make
\* no further calls.
MetabolismStrengths == {0, 3, 24, 30, 200}

MetabolismOrgans ==
  {<<>>, <<NewOrgan("Spikes")>>, <<NewOrgan("PhotoGland")>>,
   <<NewOrgan("Spikes"), NewOrgan("PhotoGland")>>,
   <<NewOrgan("PhotoGland"), NewOrgan("Spikes")>>,
   <<Gland(300), NewOrgan("PhotoGland")>>}

MetabolismHosts ==
  {Fighter("B", s, organs) : s \in MetabolismStrengths, organs \in MetabolismOrgans}

MetabolismNeighbours ==
  {NewCreature("Soil"), PlantOf(2100), DropOf(3), Fighter("A", START_STRENGTH, <<>>)}

InitMetabolism ==
  \E h \in MetabolismHosts, d \in MetabolismNeighbours :
    LET object(id) ==
          CASE id = DefenderCell + 1 -> [d EXCEPT !.location = DefenderCell]
            [] id = Origin -> [h EXCEPT !.location = OriginCell]
            [] OTHER -> [NewCreature("Soil") EXCEPT !.location = id - 1]
        objects == [id \in 1 .. NCells |-> object(id)]
    IN  /\ locations = [i \in Cells |-> i + 1]
        /\ heap = objects
        /\ count = [s \in Species |->
                      Cardinality({id \in 1 .. NCells :
                                     objects[id].kind = s /\ objects[id].alive})]
        /\ competitor_classes = <<"A", "B">>
        /\ interval = InitialInterval
        /\ running = TRUE
        /\ game_over = FALSE
        /\ turn_count = 0
        /\ Unobserved
        /\ pc = "idle"
        /\ snapshot = <<>>
        /\ ix = 0
        /\ ops = MaxOps
        /\ last = NoCall

NextMetabolism ==
  \/ DoTurnMetabolism
  \/ SoilTurn
  \/ PlantTurn
  \/ PoisonDropTurn
  \/ CreatureTurn
  \/ DoTurnCleanup

SpecMetabolism == InitMetabolism /\ [][NextMetabolism]_vars

\* C33: in every reachable state a dead creature has strength 0: no feed,
\* expend, maintenance charge or combat result leaves a dead creature with a
\* strength other than 0.
C33_DeadHaveNoStrength ==
  \A c \in DOMAIN heap : ~heap[c].alive => heap[c].strength = 0

(* --------------------------- drops of poison --------------------------- *)
\* A game some turns old with both competitors alive and poison on the
\* ground: a drop of any volume up to the reservoir capacity east of a
\* creature that owns cilia and may still move once, and beside the other
\* competitor a second drop or bare soil.  The ticks go on for MaxDropTurns
\* world turns.
MaxDropTurns == 11

DropStartVolumes == {0, 1, 2, 3, 7, 200, 999, RESERVOIR_CAPACITY}

DropCorners == {NewCreature("Soil"), DropOf(5), DropOf(RESERVOIR_CAPACITY)}

InitDrop ==
  \E v \in DropStartVolumes, d \in DropCorners :
    LET object(id) ==
          CASE id = 1 -> Fighter("A", START_STRENGTH, <<NewOrgan("Cilia")>>)
            [] id = 2 -> DropOf(v)
            [] id = 3 -> Fighter("B", START_STRENGTH, <<>>)
            [] OTHER -> d
        objects == [id \in 1 .. NCells |-> [object(id) EXCEPT !.location = id - 1]]
    IN  /\ locations = [i \in Cells |-> i + 1]
        /\ heap = objects
        /\ count = [s \in Species |->
                      Cardinality({id \in 1 .. NCells :
                                     objects[id].kind = s /\ objects[id].alive})]
        /\ competitor_classes = <<"A", "B">>
        /\ interval = InitialInterval
        /\ running = TRUE
        /\ game_over = FALSE
        /\ turn_count = 0
        /\ Unobserved
        /\ pc = "idle"
        /\ snapshot = <<>>
        /\ ix = 0
        /\ ops = MaxOps - 1
        /\ last = NoCall

\* Simulation.run performing a tick, as DoTurnMetabolism, for the first
\* MaxDropTurns world turns.
DropTick ==
  /\ pc = "idle"
  /\ RunCondition
  /\ ~poll(to_sim)
  /\ turn_count < MaxDropTurns
  /\ LET w == metabolism_pass(World, NCells)
     IN  /\ locations' = w.loc
         /\ heap' = w.heap
         /\ count' = w.count
         /\ snapshot' = locations_copy(w)
  /\ ix' = 1
  /\ pc' = "action"
  /\ UNCHANGED <<competitor_classes, interval, running, game_over, turn_count, ops, last,
                 to_sim, to_gui, shown>>

NextDrop ==
  \/ DropTick
  \/ SoilTurn
  \/ PoisonDropTurn
  \/ MoveInDirection
  \/ CreatureTurn
  \/ DoTurnCleanup

SpecDrop == InitDrop /\ [][NextDrop]_vars

\* The volume left of v after k turns of a drop.
RECURSIVE Halved(_, _)
Halved(v, k) == IF k = 0 THEN v ELSE Halved(v, k - 1) \div 2

\* This step is the do_turn of a poison drop that is on the ground.
DropActs ==
  /\ InActionPass
  /\ ix' = ix + 1
  /\ heap[Actor].kind = "PoisonDrop"
  /\ \E i \in Cells : locations[i] = Actor

\* C34: a drop of poison is transient.  Each of its turns takes its volume v
\* to floor(v / 2); it dies on the turn its volume reaches 0 and the cleanup
\* pass of that turn puts soil in its place, so that a drop still on the
\* ground after k world turns has a volume of at least 1 and of at most the
\* capacity halved k times, and no drop is left after 11 world turns (the
\* capacity of 1000 halved 10 times is 0).
C34_Step ==
  /\ DropActs =>
       /\ heap'[Actor].organs[1].volume = heap[Actor].organs[1].volume \div 2
       /\ heap'[Actor].organs[1].volume = 0 => ~heap'[Actor].alive
       /\ heap'[Actor].organs[1].volume > 0 => heap'[Actor].alive = heap[Actor].alive
  /\ TickEnds =>
       \A i \in Cells :
         /\ (Occupant(i).kind = "PoisonDrop" /\ ~Occupant(i).alive) =>
              heap'[locations'[i]].kind = "Soil"
         /\ heap'[locations'[i]].kind = "PoisonDrop" =>
              /\ heap'[locations'[i]].alive
              /\ heap'[locations'[i]].organs[1].volume >= 1
              /\ heap'[locations'[i]].organs[1].volume
                   <= Halved(RESERVOIR_CAPACITY, turn_count')
              /\ turn_count' < 11

C34_DropsAreTransient == [][C34_Step]_vars

\* The last turn of a drop that started full: its volume goes from 1 to 0
\* and it dies, still on the ground.
C34_Witness ==
  /\ pc = "action"
  /\ Halved(RESERVOIR_CAPACITY, turn_count) = 1
  /\ \E i \in Cells :
       /\ Occupant(i).kind = "PoisonDrop"
       /\ ~Occupant(i).alive
       /\ Occupant(i).turns = 1
       /\ Occupant(i).organs[1].volume = 0

====
